---------------------------- MODULE Spec2Model ----------------------------
(***************************************************************************)
(* Statement reconstruction and verification engine of b-pdf-parser.       *)
(*                                                                         *)
(* A Python str is modelled as a sequence of one-character strings, so the *)
(* regular expressions of the source are matched character by character.   *)
(* Each component is modelled with its own specification:                  *)
(*   SpecTxn  extract_transactions          (pdfparser/utils.py)           *)
(*   SpecPre  preprocess_text               (pdfparser/pdfoxide_parser.py) *)
(*   SpecNum  parse_indonesian_number and _format_number_for_csv           *)
(*   SpecVer  verify_turnover                                              *)
(*   SpecParse  parse_pdf_pymupdf, _pypdf, _pdfplumber, _pdfoxide            *)
(*   SpecFile  process_single_file and is_valid_parse                      *)
(*   SpecBatch  batch_parse over a ProcessPoolExecutor (pdfparser/batch.py)*)
(*   SpecApi  parse_pdf                          (pdfparser/__init__.py)   *)
(*   SpecTotals  extract_summary_totals            (pdfparser/utils.py)    *)
(***************************************************************************)
EXTENDS Integers, Sequences, FiniteSets, TLC

VARIABLES
    lines,          \* extract_transactions: text.split('\n')
    i,              \* extract_transactions: index of the line under scan (1-based)
    transactions,   \* extract_transactions: the records appended so far
    txn_pc,         \* extract_transactions: "idle" | "scan" | "done" | "raised"
    pp_in,          \* preprocess_text: the argument of the first call
    text,           \* preprocess_text: the local variable text
    pp_step,        \* preprocess_text: number of substitutions applied in this call
    pp_call,        \* preprocess_text: 0 idle, 1 first call, 2 call on the first result
    pp_out,         \* preprocess_text: value returned by the first call
    value,          \* number paths: the token
    num_pc,         \* number paths: "idle" | "ready" | "summed" | "done"
    sum_result,     \* parse_indonesian_number(value)
    csv_result,     \* _format_number_for_csv(value)
    ver_txns,       \* verify_turnover: the argument transactions
    summary_totals, \* verify_turnover: extract_summary_totals(summary_text)
    ver,            \* verify_turnover: its locals, returned as the result dict
    ver_pc,         \* verify_turnover: "idle" | "start" | "summed" | "debit" | "credit" | "done"
    doc,            \* parse_pdf_<backend>: the backend, the path and what the library reads
    parse_pc,       \* parse_pdf_<backend>: "idle" | "validate" | "open" | "pages" | "header"
                    \*                      | "filename" | "summary" | "returned" | "raised"
    parse_out,      \* parse_pdf_<backend>: the exception raised, the metadata and transactions
    parse_result,   \* process_single_file: what parser_func(file_path) returns or raises
    result,         \* process_single_file: the result dict
    file_pc,        \* process_single_file: "idle" | "call" | "returned"
    args,           \* batch_parse: paths, parser_name, max_workers, chunk_size, init_strategy
    batch_pc,       \* batch_parse: "idle" | "validate" | "paths" | "config" | "filter"
                    \*              | "workers" | "submit" | "collect" | "returned" | "raised"
    effects,        \* batch_parse: what the call has done outside itself so far
    valid_paths,    \* batch_parse: indices of the paths that exist and are files
    max_workers,    \* batch_parse: the pool size handed to ProcessPoolExecutor
    futures,        \* batch_parse: state and outcome of the future of each task
    results,        \* batch_parse: the list results
    successful,     \* batch_parse: the counter successful
    failed,         \* batch_parse: the counter failed
    batch_out,      \* batch_parse: the exception raised or the dict returned
    call,           \* parse_pdf: parser, verify_turnover and the environment's VERIFY_TURNOVER
    should_verify,  \* parse_pdf: the local should_verify
    api_pc,         \* parse_pdf: "idle" | "start" | "dispatch" | "verify" | "pop"
                    \*            | "returned" | "raised"
    api_out,        \* parse_pdf: the exception raised, and the dict result
    summary_lines,  \* extract_summary_totals: text.split('\n')
    all_labels,     \* extract_summary_totals: the list all_labels
    values,         \* extract_summary_totals: the list values
    totals,         \* extract_summary_totals: the dict result
    tot_pc          \* extract_summary_totals: "idle" | "labels" | "values" | "map"
                    \*                         | "inline" | "returned"

vars == <<lines, i, transactions, txn_pc, pp_in, text, pp_step, pp_call, pp_out,
          value, num_pc, sum_result, csv_result,
          ver_txns, summary_totals, ver, ver_pc,
          doc, parse_pc, parse_out,
          parse_result, result, file_pc,
          args, batch_pc, effects, valid_paths, max_workers, futures, results,
          successful, failed, batch_out,
          call, should_verify, api_pc, api_out,
          summary_lines, all_labels, values, totals, tot_pc>>

txn_vars == <<lines, i, transactions, txn_pc>>
pp_vars == <<pp_in, text, pp_step, pp_call, pp_out>>
num_vars == <<value, num_pc, sum_result, csv_result>>
ver_vars == <<ver_txns, summary_totals, ver, ver_pc>>

\* the variables of the components modelled after the number paths
parse_vars == <<doc, parse_pc, parse_out>>
file_vars == <<parse_result, result, file_pc>>
batch_vars == <<args, batch_pc, effects, valid_paths, max_workers, futures, results,
                successful, failed, batch_out>>
api_vars == <<call, should_verify, api_pc, api_out>>
tot_vars == <<summary_lines, all_labels, values, totals, tot_pc>>
last_vars == <<api_vars, tot_vars>>
late_vars == <<file_vars, batch_vars, last_vars>>
more_vars == <<ver_vars, parse_vars, late_vars>>

-----------------------------------------------------------------------------
(* Characters and character classes of Python's re                         *)

NL == "\n"

Digits == {"0", "1", "2", "3", "4", "5", "6", "7", "8", "9"}

\* \s
Whitespace == {" ", NL, "\t"}

\* [a-zA-Z], restricted to the letters the inputs below are written with
LowerLetters == {"a", "b", "c", "d", "e", "f", "g", "h", "i", "j", "k", "l", "m", "n",
                 "o", "p", "q", "r", "s", "t", "u", "v", "w", "x", "y", "z"}

UpperLetters == {"A", "B", "C", "D", "E", "F", "G", "H", "I", "J", "K", "L", "M", "N",
                 "O", "P", "Q", "R", "S", "T", "U", "V", "W", "X", "Y", "Z"}

Letters == LowerLetters \cup UpperLetters

Punctuation == {".", ",", ":", "/", "-"}

Char == Digits \cup Whitespace \cup Letters \cup Punctuation

IsDigit(c) == c \in Digits

IsSpace(c) == c \in Whitespace

IsLetter(c) == c \in Letters

\* [\d,]
DigitComma == Digits \cup {","}

\* [\d,.]
DigitCommaDot == Digits \cup {",", "."}

EmptyStr == <<>>

\* s[p] or a non-character when p is outside s (a regex never reads outside)
At(s, p) == IF p >= 1 /\ p <= Len(s) THEN s[p] ELSE "EOS"

RECURSIVE LStripFrom(_, _)
LStripFrom(s, p) ==
    IF p <= Len(s) /\ IsSpace(s[p]) THEN LStripFrom(s, p + 1) ELSE p

RECURSIVE RStripFrom(_, _)
RStripFrom(s, q) ==
    IF q >= 1 /\ IsSpace(s[q]) THEN RStripFrom(s, q - 1) ELSE q

\* str.strip()
Strip(s) == SubSeq(s, LStripFrom(s, 1), RStripFrom(s, Len(s)))

\* length of the maximal run of characters of class C in s starting at p:
\* what a greedy C+ or C* takes at p
RECURSIVE Run(_, _, _)
Run(C, s, p) ==
    IF p >= 1 /\ p <= Len(s) /\ s[p] \in C THEN 1 + Run(C, s, p + 1) ELSE 0

\* \d{n} at p
DigitsAt(s, p, n) == \A k \in 0..(n - 1) : IsDigit(At(s, p + k))

-----------------------------------------------------------------------------
(* extract_transactions: the compiled patterns                             *)

\* TRANSACTION_DATE_PATTERN.match: ^\d{2}/\d{2}/\d{2}\s+\d{2}:\d{2}:\d{2}
TRANSACTION_DATE_PATTERN(s) ==
    /\ DigitsAt(s, 1, 2) /\ At(s, 3) = "/"
    /\ DigitsAt(s, 4, 2) /\ At(s, 6) = "/"
    /\ DigitsAt(s, 7, 2)
    /\ LET w == Run(Whitespace, s, 9)
       IN  /\ w >= 1
           /\ DigitsAt(s, 9 + w, 2) /\ At(s, 11 + w) = ":"
           /\ DigitsAt(s, 12 + w, 2) /\ At(s, 14 + w) = ":"
           /\ DigitsAt(s, 15 + w, 2)

\* _date_only_match: ^(\d{2}/\d{2}/\d{2})
DateOnlyMatch(s) ==
    /\ DigitsAt(s, 1, 2) /\ At(s, 3) = "/"
    /\ DigitsAt(s, 4, 2) /\ At(s, 6) = "/"
    /\ DigitsAt(s, 7, 2)

\* _NUMERIC_LINE_PATTERN.match: ^[\d,.]+\s*$
NUMERIC_LINE_PATTERN(s) ==
    LET n == Run(DigitCommaDot, s, 1)
        w == Run(Whitespace, s, n + 1)
    IN  n >= 1 /\ n + w = Len(s)

\* _AMOUNT_PATTERN.match: ^[\d,]+\.\d{2}$
AMOUNT_PATTERN(s) ==
    LET n == Run(DigitComma, s, 1)
    IN  /\ n >= 1
        /\ At(s, n + 1) = "."
        /\ DigitsAt(s, n + 2, 2)
        /\ \/ Len(s) = n + 3
           \/ Len(s) = n + 4 /\ s[n + 4] = NL

\* _USER_ID_PATTERN.match: ^\d{6,8}$
USER_ID_PATTERN(s) ==
    LET d == Run(Digits, s, 1)
    IN  /\ d >= 6 /\ d <= 8
        /\ \/ Len(s) = d
           \/ Len(s) = d + 1 /\ s[d + 1] = NL

-----------------------------------------------------------------------------
(* extract_transactions: the scan                                          *)

\* the value a field takes when the code would index lines out of range
IndexError == <<"IndexError">>

\* i < len(lines), for the 1-based index j
InRange(j) == j >= 1 /\ j <= Len(lines)

\* lines[j].strip(); IndexError when j is out of range
LineAt(j) == IF InRange(j) THEN Strip(lines[j]) ELSE IndexError

\* a line the outer loop starts a transaction at (utils.py 268-271)
IsAnchor(s) == TRANSACTION_DATE_PATTERN(s) /\ DateOnlyMatch(s)

\* the inner description loop (utils.py 277-287): first index at or after j
\* whose line is a date line or a numeric line, or len(lines)
RECURSIVE DescriptionEnd(_)
DescriptionEnd(j) ==
    IF ~InRange(j) THEN j
    ELSE IF TRANSACTION_DATE_PATTERN(Strip(lines[j])) THEN j
    ELSE IF NUMERIC_LINE_PATTERN(Strip(lines[j])) THEN j
    ELSE DescriptionEnd(j + 1)

\* ' '.join(description_lines) over the non-empty stripped lines j..k-1
RECURSIVE JoinDescription(_, _)
JoinDescription(j, k) ==
    IF j >= k THEN EmptyStr
    ELSE LET here == Strip(lines[j])
             rest == JoinDescription(j + 1, k)
         IN  IF here = EmptyStr THEN rest
             ELSE IF rest = EmptyStr THEN here
             ELSE here \o <<" ">> \o rest

\* the blank-skipping loops left out
SkipNothing(j) == j

\* while i < len(lines) and not lines[i].strip(): i += 1
RECURSIVE SkipBlank(_)
SkipBlank(j) ==
    IF InRange(j) /\ Strip(lines[j]) = EmptyStr THEN SkipBlank(j + 1) ELSE j

\* mutant of FieldOrEmpty: the bounds check is dropped
FieldUnguarded(j) == LineAt(j)

\* lines[i].strip() if i < len(lines) else ''
FieldOrEmpty(j) == IF InRange(j) THEN LineAt(j) ELSE EmptyStr

\* the description loop without the i += 1 before it (utils.py 275)
NextFieldIndexFromAnchor(a) == SkipBlank(DescriptionEnd(a))

\* index of the field right after the description of the transaction at anchor a
NextFieldIndex(a) == SkipBlank(DescriptionEnd(a + 1))

\* mutant of EndsBeforeNextField: the break is taken only when no line is left at
\* all after the anchor, so a description running to the end still yields a record
EndsRightAfterAnchor(a) == ~InRange(a + 1)

\* utils.py 293-294: if i >= len(lines): break
EndsBeforeNextField(a) == ~InRange(NextFieldIndex(a))

Transaction(date, description, user, debit, credit, balance) ==
    [date |-> date, description |-> description, user |-> user,
     debit |-> debit, credit |-> credit, balance |-> balance]

\* transactions.insert(0, transaction) for transactions.append(transaction)
EmitFirst(rec, next_i) ==
    IF \E k \in DOMAIN rec : rec[k] = IndexError
    THEN /\ txn_pc' = "raised"
         /\ UNCHANGED <<lines, i, transactions>>
    ELSE /\ transactions' = <<rec>> \o transactions
         /\ i' = next_i
         /\ UNCHANGED <<lines, txn_pc>>

\* transactions.append(transaction), or the exception when a field could not be read
Emit(rec, next_i) ==
    IF \E k \in DOMAIN rec : rec[k] = IndexError
    THEN /\ txn_pc' = "raised"
         /\ UNCHANGED <<lines, i, transactions>>
    ELSE /\ transactions' = Append(transactions, rec)
         /\ i' = next_i
         /\ UNCHANGED <<lines, txn_pc>>

\* utils.py 263-265: skip empty lines
SkipEmptyLine ==
    /\ txn_pc = "scan"
    /\ InRange(i)
    /\ Strip(lines[i]) = EmptyStr
    /\ i' = i + 1
    /\ UNCHANGED <<lines, transactions, txn_pc>>
    /\ UNCHANGED <<pp_vars, num_vars, more_vars>>

\* utils.py 348-351: a non-empty line that starts no transaction
SkipOtherLine ==
    /\ txn_pc = "scan"
    /\ InRange(i)
    /\ Strip(lines[i]) # EmptyStr
    /\ ~IsAnchor(Strip(lines[i]))
    /\ i' = i + 1
    /\ UNCHANGED <<lines, transactions, txn_pc>>
    /\ UNCHANGED <<pp_vars, num_vars, more_vars>>

\* utils.py 293-294: the lines end before the field after the description: break
TxnTruncated ==
    /\ txn_pc = "scan"
    /\ InRange(i)
    /\ IsAnchor(Strip(lines[i]))
    /\ EndsBeforeNextField(i)
    /\ i' = NextFieldIndex(i)
    /\ txn_pc' = "done"
    /\ UNCHANGED <<lines, transactions>>
    /\ UNCHANGED <<pp_vars, num_vars, more_vars>>

\* utils.py 304-319: the field after the description is a 6-8 digit user ID
TxnWithUserId ==
    /\ txn_pc = "scan"
    /\ InRange(i)
    /\ IsAnchor(Strip(lines[i]))
    /\ LET f == NextFieldIndex(i)
           d == SkipBlank(f + 1)
           c == SkipBlank(d + 1)
           b == SkipBlank(c + 1)
       IN  /\ ~EndsBeforeNextField(i)
           /\ USER_ID_PATTERN(LineAt(f))
           /\ Emit(Transaction(Strip(lines[i]),
                               JoinDescription(i + 1, DescriptionEnd(i + 1)),
                               LineAt(f), FieldOrEmpty(d), FieldOrEmpty(c),
                               FieldOrEmpty(b)),
                   b)
    /\ UNCHANGED <<pp_vars, num_vars, more_vars>>

\* utils.py 320-331: the field after the description is a decimal amount
TxnWithoutUserId ==
    /\ txn_pc = "scan"
    /\ InRange(i)
    /\ IsAnchor(Strip(lines[i]))
    /\ LET f == NextFieldIndex(i)
           c == SkipBlank(f + 1)
           b == SkipBlank(c + 1)
       IN  /\ ~EndsBeforeNextField(i)
           /\ ~USER_ID_PATTERN(LineAt(f))
           /\ AMOUNT_PATTERN(LineAt(f))
           /\ Emit(Transaction(Strip(lines[i]),
                               JoinDescription(i + 1, DescriptionEnd(i + 1)),
                               EmptyStr, LineAt(f), FieldOrEmpty(c), FieldOrEmpty(b)),
                   b)
    /\ UNCHANGED <<pp_vars, num_vars, more_vars>>

\* utils.py 332-337: anything else is stored as user, the amounts stay empty
TxnFallback ==
    /\ txn_pc = "scan"
    /\ InRange(i)
    /\ IsAnchor(Strip(lines[i]))
    /\ LET f == NextFieldIndex(i)
       IN  /\ ~EndsBeforeNextField(i)
           /\ ~USER_ID_PATTERN(LineAt(f))
           /\ ~AMOUNT_PATTERN(LineAt(f))
           /\ Emit(Transaction(Strip(lines[i]),
                               JoinDescription(i + 1, DescriptionEnd(i + 1)),
                               LineAt(f), EmptyStr, EmptyStr, EmptyStr),
                   f)
    /\ UNCHANGED <<pp_vars, num_vars, more_vars>>

\* utils.py 259, 353: the outer loop ends, return transactions
TxnReturn ==
    /\ txn_pc = "scan"
    /\ ~InRange(i)
    /\ txn_pc' = "done"
    /\ UNCHANGED <<lines, i, transactions>>
    /\ UNCHANGED <<pp_vars, num_vars, more_vars>>

NextTxn ==
    \/ SkipEmptyLine
    \/ SkipOtherLine
    \/ TxnTruncated
    \/ TxnWithUserId
    \/ TxnWithoutUserId
    \/ TxnFallback
    \/ TxnReturn

-----------------------------------------------------------------------------
(* extract_transactions: the inputs                                        *)

\* bound: longest line sequence drawn from CoreLines
MaxLines == 5

L_date == <<"0","1","/","0","1","/","2","3"," ","1","0",":","0","0",":","0","0">>
L_date24 == <<"0","1","/","0","1","/","2","4"," ","1","2",":","0","0",":","0","0">>
L_Transfer == <<"T","r","a","n","s","f","e","r">>
L_TransferTest == <<"T","r","a","n","s","f","e","r"," ","T","e","s","t">>
L_User123 == <<"U","s","e","r","1","2","3">>
L_id8 == <<"1","2","3","4","5","6","7","8">>
L_id9 == <<"1","2","3","4","5","6","7","8","9">>
L_us_100000 == <<"1","0","0","0","0","0",".","0","0">>
L_us_0 == <<"0",".","0","0">>
L_us_500000 == <<"5","0","0","0","0","0",".","0","0">>
L_id_10000 == <<"1","0",".","0","0","0",",","0","0">>
L_id_0 == <<"0",",","0","0">>
L_id_1000000 == <<"1",".","0","0","0",".","0","0","0",",","0","0">>
L_blank == <<" ">>

\* one line of each kind the scan tells apart
CoreLines == {L_date, L_Transfer, L_id8, L_us_100000, L_id_10000, L_blank}

\* tests/test_indonesian_format.py 8-55 and tests/test_utils.py 113-128
IndonesianWithUser ==
    <<L_date, L_Transfer, L_User123, L_id_10000, L_id_0, L_id_1000000>>

IndonesianNoUser == <<L_date, L_Transfer, L_id_10000, L_id_0, L_id_1000000>>

NineDigitUser ==
    <<L_date24, L_TransferTest, L_id9, L_us_100000, L_us_0, L_us_500000>>

UsFormat == <<L_date, L_Transfer, L_User123, L_us_100000, L_us_0, L_us_500000>>

\* the six-line layout of the docstring (utils.py 234-240)
DocstringLayout == <<L_date, L_Transfer, L_id8, L_us_100000, L_us_0, L_us_500000>>

Scenarios ==
    {IndonesianWithUser, IndonesianNoUser, NineDigitUser, UsFormat, DocstringLayout}

\* every way of cutting a text short, and the test texts' leading and trailing '\n'
Prefixes(q) == {SubSeq(q, 1, n) : n \in 1..Len(q)}

ScenarioInputs ==
    UNION {Prefixes(q) \cup {<<EmptyStr>> \o q \o <<EmptyStr>>} : q \in Scenarios}

TxnInputs ==
    UNION {[1..n -> CoreLines] : n \in 1..MaxLines} \cup ScenarioInputs

IdlePre ==
    /\ pp_in = EmptyStr /\ text = EmptyStr /\ pp_step = 0 /\ pp_call = 0
    /\ pp_out = EmptyStr

IdleNum ==
    /\ value = EmptyStr /\ num_pc = "idle" /\ sum_result = <<0, 0>>
    /\ csv_result = EmptyStr

IdleTxn ==
    /\ lines = <<EmptyStr>> /\ i = 1 /\ transactions = <<>> /\ txn_pc = "idle"

\* Python's None
None == <<"None">>

\* verify_turnover: the locals before the first statement
VerLocals ==
    [calculated_debit |-> <<0, 0>>, calculated_credit |-> <<0, 0>>,
     extracted_debit |-> None, extracted_credit |-> None,
     debit_match |-> FALSE, debit_discrepancy |-> <<0, 0>>,
     credit_match |-> FALSE, credit_discrepancy |-> <<0, 0>>,
     status |-> "", mismatch_parts |-> <<>>]

IdleVer ==
    /\ ver_txns = <<>> /\ ver_pc = "idle" /\ ver = VerLocals
    /\ summary_totals = [total_debit |-> None, total_credit |-> None]

\* the keys extract_metadata assigns
HeaderKeys == {"account_no", "business_unit", "product_name", "statement_date",
               "valuta", "unit_address", "transaction_period"}

\* the keys extract_metadata_pdfplumber assigns
PdfplumberKeys == {"account_no", "business_unit", "product_name", "statement_date"}

\* the keys of extract_summary_totals
SummaryKeys == {"total_debit", "total_credit", "opening_balance", "closing_balance"}

\* no document
NoDoc ==
    [backend |-> "pymupdf", path |-> "missing", open_raises |-> "none",
     page_count |-> 0,
     captures |-> [k \in HeaderKeys |-> None],
     id_captures |-> [k \in PdfplumberKeys |-> None],
     stem_account |-> None,
     summary |-> [k \in SummaryKeys |-> None],
     scanned |-> <<>>]

\* nothing returned, nothing raised
NoOutcome == [raised |-> "none", metadata |-> <<>>, transactions |-> <<>>]

IdleParse == doc = NoDoc /\ parse_pc = "idle" /\ parse_out = NoOutcome

\* process_single_file: the result dict before the try block
PendingResult(file_path) ==
    [success |-> FALSE, file_path |-> file_path, metadata |-> <<>>,
     transactions |-> <<>>, error |-> None, is_valid |-> FALSE]

IdleFile ==
    parse_result = NoOutcome /\ result = PendingResult(0) /\ file_pc = "idle"

DEFAULT_CHUNK_SIZE == 100

\* an argument max_workers: None, an int, or a number that is no int
NoneArg == [type |-> "NoneType", value |-> 0]

\* batch_parse: the defaults of its signature, on no path
DefaultArgs ==
    [paths |-> <<>>, parser_name |-> "pymupdf", max_workers |-> NoneArg,
     chunk_size |-> DEFAULT_CHUNK_SIZE, init_strategy |-> "per-worker"]

\* nothing done yet: no directory made, no task submitted, no file read or written
NoEffects ==
    [config_loaded |-> FALSE, makedirs |-> FALSE, stat |-> {}, submitted |-> {},
     read |-> {}, saved |-> {}, files |-> <<>>]

\* batch_parse: nothing raised, nothing returned
NoReturn ==
    [raised |-> "none", total |-> 0, successful |-> 0, failed |-> 0,
     results |-> <<>>, success_rate |-> <<0, 1>>]

IdleBatch ==
    /\ args = DefaultArgs /\ batch_pc = "idle" /\ effects = NoEffects
    /\ valid_paths = <<>> /\ max_workers = 0 /\ futures = <<>>
    /\ results = <<>> /\ successful = 0 /\ failed = 0 /\ batch_out = NoReturn

\* parse_pdf: the defaults of its signature, VERIFY_TURNOVER not set
DefaultCall == [parser |-> "pymupdf", verify_turnover |-> "None", env |-> None]

IdleApi ==
    /\ call = DefaultCall /\ should_verify = FALSE /\ api_pc = "idle"
    /\ api_out = [raised |-> "none", result |-> <<>>]

\* utils.py 562-567
NoTotals == [k \in SummaryKeys |-> None]

IdleTotals ==
    /\ summary_lines = <<>> /\ all_labels = <<>> /\ values = <<>>
    /\ totals = NoTotals /\ tot_pc = "idle"

IdleLast == IdleApi /\ IdleTotals

IdleLate == IdleFile /\ IdleBatch /\ IdleLast

IdleMore == IdleVer /\ IdleParse /\ IdleLate

\* utils.py 248-250
InitTxn ==
    /\ lines \in TxnInputs
    /\ i = 1
    /\ transactions = <<>>
    /\ txn_pc = "scan"
    /\ IdlePre
    /\ IdleNum
    /\ IdleMore

SpecTxn == InitTxn /\ [][NextTxn]_vars

-----------------------------------------------------------------------------
(* extract_transactions: properties                                        *)

Last(q) == q[Len(q)]

\* the one record of a finished scan equals the given amounts
OneRecordWith(debit, credit, balance) ==
    /\ Len(transactions) = 1
    /\ transactions[1].debit = debit
    /\ transactions[1].credit = credit
    /\ transactions[1].balance = balance

\* C1 (as claimed): an Indonesian-format decimal right after the description
\* is the debit, never the user: the test lines with "User123" yield one record
\* with debit "10.000,00", credit "0,00", balance "1.000.000,00" and a user other
\* than "10.000,00"; without "User123" the user is empty and the amounts the same.
C1_IndonesianAmountIsDebit ==
    /\ (txn_pc = "done" /\ lines = IndonesianWithUser)
          => /\ OneRecordWith(L_id_10000, L_id_0, L_id_1000000)
             /\ transactions[1].user # L_id_10000
    /\ (txn_pc = "done" /\ lines = IndonesianNoUser)
          => /\ OneRecordWith(L_id_10000, L_id_0, L_id_1000000)
             /\ transactions[1].user = EmptyStr

\* C2 (as claimed): a field after the description that is neither a 6-8 digit
\* integer nor a decimal amount is stored as user, and the next three non-empty
\* lines are still read as debit, credit and balance.
C2_FallbackStillReadsAmounts ==
    (txn_pc = "done" /\ lines = NineDigitUser)
        => /\ OneRecordWith(L_us_100000, L_us_0, L_us_500000)
           /\ transactions[1].user = L_id9

\* no date line and no numeric line follows line a: the text ends within the
\* date or the description of the transaction anchored at a
EndsWithinDescription(a) ==
    \A j \in (a + 1)..Len(lines) :
        /\ ~TRANSACTION_DATE_PATTERN(Strip(lines[j]))
        /\ ~NUMERIC_LINE_PATTERN(Strip(lines[j]))

\* C3 (as claimed, restricted to the records whose amounts the scan went on to
\* read, i.e. user is a 6-8 digit ID or empty): a record is emitted only after
\* its balance line has been read, so no emitted record lacks its balance.
C3_RecordOnlyAfterBalance ==
    \A k \in 1..Len(transactions) :
        (USER_ID_PATTERN(transactions[k].user) \/ transactions[k].user = EmptyStr)
            => transactions[k].balance # EmptyStr

\* C3 (amended): a scan step at a date anchor emits no record and ends the scan
\* with the earlier records unchanged exactly when the text ends within that
\* transaction's date or description; otherwise it appends one record after the
\* unchanged earlier ones, and a balance the text ended before is the empty string.
C3_TruncatedBeforeFirstFieldOmitted ==
    [][(txn_pc = "scan" /\ InRange(i) /\ IsAnchor(Strip(lines[i])))
         => IF EndsWithinDescription(i)
            THEN transactions' = transactions /\ txn_pc' = "done"
            ELSE /\ Len(transactions') = Len(transactions) + 1
                 /\ SubSeq(transactions', 1, Len(transactions)) = transactions
                 /\ ~InRange(i') => Last(transactions').balance = EmptyStr]_vars

\* C3 witness: a scan that kept an earlier complete record and ended at a
\* trailing date anchor with nothing but description after it
C3_Witness ==
    /\ txn_pc = "done"
    /\ Len(transactions) >= 1
    /\ AMOUNT_PATTERN(Last(transactions).balance)
    /\ \E a \in 1..Len(lines) : IsAnchor(Strip(lines[a])) /\ EndsWithinDescription(a)

RecordKeys == {"date", "description", "user", "debit", "credit", "balance"}

\* C4: for every line sequence extract_transactions raises nothing, and every
\* record it holds has exactly the six keys, each a string.
C4_NeverRaisesSixStringFields ==
    /\ txn_pc # "raised"
    /\ \A k \in 1..Len(transactions) :
          /\ DOMAIN transactions[k] = RecordKeys
          /\ \A f \in RecordKeys : transactions[k][f] \in Seq(Char)

\* C4 witness: a finished scan of a text cut short after the user ID, whose
\* record was completed with empty strings
C4_Witness ==
    /\ txn_pc = "done"
    /\ Len(transactions) >= 1
    /\ USER_ID_PATTERN(Last(transactions).user)
    /\ Last(transactions).debit = EmptyStr
    /\ Last(transactions).balance = EmptyStr

-----------------------------------------------------------------------------
(* preprocess_text: the substitutions                                      *)
(*                                                                         *)
(* A matcher gives, for a text s and a position p, the pair of the number  *)
(* of characters the leftmost-first match starting at p consumes (0 when   *)
(* the pattern does not match at p) and the text the match is replaced by. *)

NoMatch == <<0, EmptyStr>>

Min(a, b) == IF a <= b THEN a ELSE b

UpperSeq == <<"A", "B", "C", "D", "E", "F", "G", "H", "I", "J", "K", "L", "M", "N",
              "O", "P", "Q", "R", "S", "T", "U", "V", "W", "X", "Y", "Z">>

LowerSeq == <<"a", "b", "c", "d", "e", "f", "g", "h", "i", "j", "k", "l", "m", "n",
              "o", "p", "q", "r", "s", "t", "u", "v", "w", "x", "y", "z">>

\* str.lower() of one character: how re.IGNORECASE compares letters
Lower(c) ==
    IF c \in UpperLetters
    THEN LowerSeq[CHOOSE k \in 1..Len(UpperSeq) : UpperSeq[k] = c]
    ELSE c

\* the literal word w at p, compared as under re.IGNORECASE
WordAt(s, p, w) ==
    /\ p >= 1
    /\ p + Len(w) - 1 <= Len(s)
    /\ \A k \in 1..Len(w) : Lower(s[p + k - 1]) = Lower(w[k])

\* [\d,]+\.\d{2} at p: characters consumed, 0 when it does not match
AmountLen(s, p) ==
    LET n == Run(DigitComma, s, p)
    IN  IF n >= 1 /\ At(s, p + n) = "." /\ DigitsAt(s, p + n + 1, 2)
        THEN n + 3 ELSE 0

\* \d{2}:\d{2}:\d{2} at p
TimeAt(s, p) ==
    /\ DigitsAt(s, p, 2) /\ At(s, p + 2) = ":"
    /\ DigitsAt(s, p + 3, 2) /\ At(s, p + 5) = ":"
    /\ DigitsAt(s, p + 6, 2)

\* what the lookahead (?!AM|PM) rejects at q
MeridiemAt(s, q) == At(s, q) \in {"A", "P"} /\ At(s, q + 1) = "M"

\* pdfoxide_parser.py 38: (\d{2}:\d{2}:\d{2})\s+(?!AM|PM) -> \1\n
\* \s+ takes the whole run of whitespace, and gives one character back when
\* AM or PM follows the run
MatchDateTime(s, p) ==
    LET w == Run(Whitespace, s, p + 8)
        k == IF w >= 1 /\ ~MeridiemAt(s, p + 8 + w) THEN w
             ELSE IF w >= 2 THEN w - 1
             ELSE 0
    IN  IF TimeAt(s, p) /\ k >= 1
        THEN <<8 + k, SubSeq(s, p, p + 7) \o <<NL>>>>
        ELSE NoMatch

\* pdfoxide_parser.py 44-45: (\.\d{2})([\d,]+\.\d{2}) -> \1\n\2
MatchAmountAmount(s, p) ==
    LET a == AmountLen(s, p + 3)
    IN  IF At(s, p) = "." /\ DigitsAt(s, p + 1, 2) /\ a > 0
        THEN <<3 + a, SubSeq(s, p, p + 2) \o <<NL>> \o SubSeq(s, p + 3, p + 2 + a)>>
        ELSE NoMatch

\* pdfoxide_parser.py 50-51: ([\d,]+\.\d{2})\s+([\d,]+\.\d{2}) -> \1\n\2
MatchAmountSpaceAmount(s, p) ==
    LET a == AmountLen(s, p)
        w == Run(Whitespace, s, p + a)
        b == AmountLen(s, p + a + w)
    IN  IF a > 0 /\ w >= 1 /\ b > 0
        THEN <<a + w + b,
               SubSeq(s, p, p + a - 1) \o <<NL>>
                   \o SubSeq(s, p + a + w, p + a + w + b - 1)>>
        ELSE NoMatch

\* pdfoxide_parser.py 56: (\d{6,8})([\d,]+\.\d{2}) -> \1\n\2
\* \d{6,8} takes up to 8 digits and gives back until [\d,]+ has a character left
MatchUserAmount(s, p) ==
    LET d == Run(Digits, s, p)
        n == Run(DigitComma, s, p)
        k == Min(8, Min(d, n - 1))
    IN  IF k >= 6 /\ At(s, p + n) = "." /\ DigitsAt(s, p + n + 1, 2)
        THEN <<n + 3,
               SubSeq(s, p, p + k - 1) \o <<NL>> \o SubSeq(s, p + k, p + n + 2)>>
        ELSE NoMatch

\* pdfoxide_parser.py 62: ([a-zA-Z])(\d{6,8})\s -> \1\n\2 followed by a space
MatchDescUser(s, p) ==
    LET d == Run(Digits, s, p + 1)
    IN  IF IsLetter(At(s, p)) /\ d >= 6 /\ d <= 8 /\ IsSpace(At(s, p + 1 + d))
        THEN <<d + 2, <<s[p], NL>> \o SubSeq(s, p + 1, p + d) \o <<" ">>>>
        ELSE NoMatch

\* pdfoxide_parser.py 66: \s+(\d{6,8})\s -> \n\1\n
MatchSpaceUser(s, p) ==
    LET w == Run(Whitespace, s, p)
        d == Run(Digits, s, p + w)
    IN  IF w >= 1 /\ d >= 6 /\ d <= 8 /\ IsSpace(At(s, p + w + d))
        THEN <<w + d + 1, <<NL>> \o SubSeq(s, p + w, p + w + d - 1) \o <<NL>>>>
        ELSE NoMatch

\* pdfoxide_parser.py 71: ([a-zA-Z])([\d,]+\.\d{2}) -> \1\n\2
MatchDescAmount(s, p) ==
    LET a == AmountLen(s, p + 1)
    IN  IF IsLetter(At(s, p)) /\ a > 0
        THEN <<1 + a, <<s[p], NL>> \o SubSeq(s, p + 1, p + a)>>
        ELSE NoMatch

\* pdfoxide_parser.py 75: ([a-zA-Z])\s+([\d,]+\.\d{2}) -> \1\n\2
MatchDescSpaceAmount(s, p) ==
    LET w == Run(Whitespace, s, p + 1)
        a == AmountLen(s, p + 1 + w)
    IN  IF IsLetter(At(s, p)) /\ w >= 1 /\ a > 0
        THEN <<1 + w + a, <<s[p], NL>> \o SubSeq(s, p + 1 + w, p + w + a)>>
        ELSE NoMatch

W_No == <<"N","o">>
W_Rekening == <<"R","e","k","e","n","i","n","g">>
W_Unit == <<"U","n","i","t">>
W_Kerja == <<"K","e","r","j","a">>
W_Nama == <<"N","a","m","a">>
W_Produk == <<"P","r","o","d","u","k">>
W_Alamat == <<"A","l","a","m","a","t">>
W_Valuta == <<"V","a","l","u","t","a">>
W_Currency == <<"C","u","r","r","e","n","c","y">>

\* Unit\s+Kerja at p: characters consumed, 0 when it does not match
UnitKerjaLen(s, p) ==
    LET w == Run(Whitespace, s, p + 4)
    IN  IF WordAt(s, p, W_Unit) /\ w >= 1 /\ WordAt(s, p + 4 + w, W_Kerja)
        THEN 4 + w + 5 ELSE 0

\* pdfoxide_parser.py 81-86:
\* (No\.?\s*Rekening\s*:?\s*[0-9]*)(Unit\s+Kerja) -> \1\n\2, IGNORECASE
MatchAccountUnit(s, p) ==
    LET q1 == p + 2 + (IF At(s, p + 2) = "." THEN 1 ELSE 0)
        q2 == q1 + Run(Whitespace, s, q1)
        q3 == q2 + 8 + Run(Whitespace, s, q2 + 8)
        q4 == q3 + (IF At(s, q3) = ":" THEN 1 ELSE 0)
        q5 == q4 + Run(Whitespace, s, q4)
        q6 == q5 + Run(Digits, s, q5)
        u == UnitKerjaLen(s, q6)
    IN  IF WordAt(s, p, W_No) /\ WordAt(s, q2, W_Rekening) /\ u > 0
        THEN <<q6 + u - p,
               SubSeq(s, p, q6 - 1) \o <<NL>> \o SubSeq(s, q6, q6 + u - 1)>>
        ELSE NoMatch

\* Alamat\s+Unit\s+Kerja at p: characters consumed, 0 when it does not match
AlamatUnitKerjaLen(s, p) ==
    LET w == Run(Whitespace, s, p + 6)
        u == UnitKerjaLen(s, p + 6 + w)
    IN  IF WordAt(s, p, W_Alamat) /\ w >= 1 /\ u > 0 THEN 6 + w + u ELSE 0

\* the lazy .*? from q: the nearest a >= q where Alamat Unit Kerja starts with
\* no newline in between (. does not match a newline); 0 when there is none
RECURSIVE LazyUpToAlamat(_, _)
LazyUpToAlamat(s, a) ==
    IF a > Len(s) THEN 0
    ELSE IF AlamatUnitKerjaLen(s, a) > 0 THEN a
    ELSE IF s[a] = NL THEN 0
    ELSE LazyUpToAlamat(s, a + 1)

\* pdfoxide_parser.py 91-96:
\* (Nama\s+Produk\s*:\s*.*?)(Alamat\s+Unit\s+Kerja) -> \1\n\2, IGNORECASE
MatchProductAddress(s, p) ==
    LET w1 == Run(Whitespace, s, p + 4)
        q1 == p + 4 + w1
        q2 == q1 + 6 + Run(Whitespace, s, q1 + 6)
        q3 == q2 + 1 + Run(Whitespace, s, q2 + 1)
        a == LazyUpToAlamat(s, q3)
        n == AlamatUnitKerjaLen(s, a)
    IN  IF /\ WordAt(s, p, W_Nama) /\ w1 >= 1 /\ WordAt(s, q1, W_Produk)
           /\ At(s, q2) = ":" /\ a > 0
        THEN <<a + n - p,
               SubSeq(s, p, a - 1) \o <<NL>> \o SubSeq(s, a, a + n - 1)>>
        ELSE NoMatch

\* pdfoxide_parser.py 100-102:
\* (Valuta:?\s*[A-Z]{3})\s*(Currency) -> \1\n\2, IGNORECASE
MatchValutaCurrency(s, p) ==
    LET q1 == p + 6 + (IF At(s, p + 6) = ":" THEN 1 ELSE 0)
        q2 == q1 + Run(Whitespace, s, q1)
        q3 == q2 + 3 + Run(Whitespace, s, q2 + 3)
    IN  IF /\ WordAt(s, p, W_Valuta)
           /\ \A k \in 0..2 : IsLetter(At(s, q2 + k))
           /\ WordAt(s, q3, W_Currency)
        THEN <<q3 + 8 - p,
               SubSeq(s, p, q2 + 2) \o <<NL>> \o SubSeq(s, q3, q3 + 7)>>
        ELSE NoMatch

Rules == {"date_time", "amount_amount", "amount_space_amount", "user_amount",
          "desc_user", "space_user", "desc_amount", "desc_space_amount",
          "account_unit", "product_address", "valuta_currency"}

Match(rule, s, p) ==
    CASE rule = "date_time" -> MatchDateTime(s, p)
      [] rule = "amount_amount" -> MatchAmountAmount(s, p)
      [] rule = "amount_space_amount" -> MatchAmountSpaceAmount(s, p)
      [] rule = "user_amount" -> MatchUserAmount(s, p)
      [] rule = "desc_user" -> MatchDescUser(s, p)
      [] rule = "space_user" -> MatchSpaceUser(s, p)
      [] rule = "desc_amount" -> MatchDescAmount(s, p)
      [] rule = "desc_space_amount" -> MatchDescSpaceAmount(s, p)
      [] rule = "account_unit" -> MatchAccountUnit(s, p)
      [] rule = "product_address" -> MatchProductAddress(s, p)
      [] rule = "valuta_currency" -> MatchValutaCurrency(s, p)

\* re.sub from position p on: replace the leftmost match, go on after its end
RECURSIVE SubFrom(_, _, _)
SubFrom(rule, s, p) ==
    IF p > Len(s) THEN EmptyStr
    ELSE LET m == Match(rule, s, p)
         IN  IF m[1] > 0
             THEN m[2] \o SubFrom(rule, s, p + m[1])
             ELSE <<s[p]>> \o SubFrom(rule, s, p + 1)

\* re.sub(pattern, repl, text)
Sub(rule, s) == SubFrom(rule, s, 1)

-----------------------------------------------------------------------------
(* preprocess_text: the function, statement by statement                   *)

\* number of re.sub statements of preprocess_text
LastStep == 13

\* one re.sub statement: the step it is at, the rule it applies
Substitute(step, rule) ==
    /\ pp_call \in {1, 2}
    /\ pp_step = step
    /\ text' = Sub(rule, text)
    /\ pp_step' = step + 1
    /\ UNCHANGED <<pp_in, pp_call, pp_out>>
    /\ UNCHANGED <<txn_vars, num_vars, more_vars>>

\* pdfoxide_parser.py 31-32: if not text: return ""
ReturnEmpty ==
    /\ pp_call \in {1, 2}
    /\ pp_step = 0
    /\ text = EmptyStr
    /\ pp_step' = LastStep
    /\ UNCHANGED <<pp_in, text, pp_call, pp_out>>
    /\ UNCHANGED <<txn_vars, num_vars, more_vars>>

\* pdfoxide_parser.py 38
SplitDateTime == text # EmptyStr /\ Substitute(0, "date_time")

\* pdfoxide_parser.py 44
SplitAmountAmount == Substitute(1, "amount_amount")

\* pdfoxide_parser.py 45
SplitAmountAmountAgain == Substitute(2, "amount_amount")

\* pdfoxide_parser.py 50
SplitAmountSpaceAmount == Substitute(3, "amount_space_amount")

\* pdfoxide_parser.py 51
SplitAmountSpaceAmountAgain == Substitute(4, "amount_space_amount")

\* pdfoxide_parser.py 56
SplitUserAmount == Substitute(5, "user_amount")

\* pdfoxide_parser.py 62
SplitDescUser == Substitute(6, "desc_user")

\* pdfoxide_parser.py 66
SplitSpaceUser == Substitute(7, "space_user")

\* pdfoxide_parser.py 71
SplitDescAmount == Substitute(8, "desc_amount")

\* pdfoxide_parser.py 75
SplitDescSpaceAmount == Substitute(9, "desc_space_amount")

\* pdfoxide_parser.py 81-86
SplitAccountUnit == Substitute(10, "account_unit")

\* pdfoxide_parser.py 91-96
SplitProductAddress == Substitute(11, "product_address")

\* pdfoxide_parser.py 100-102
SplitValutaCurrency == Substitute(12, "valuta_currency")

\* pdfoxide_parser.py 104: return text; the caller keeps the result and passes
\* it to preprocess_text once more
ReturnAndCallAgain ==
    /\ pp_call = 1
    /\ pp_step = LastStep
    /\ pp_out' = text
    /\ pp_call' = 2
    /\ pp_step' = 0
    /\ UNCHANGED <<pp_in, text>>
    /\ UNCHANGED <<txn_vars, num_vars, more_vars>>

\* pdfoxide_parser.py 104: the second call returns
ReturnAgain ==
    /\ pp_call = 2
    /\ pp_step = LastStep
    /\ pp_call' = 3
    /\ UNCHANGED <<pp_in, text, pp_step, pp_out>>
    /\ UNCHANGED <<txn_vars, num_vars, more_vars>>

NextPre ==
    \/ ReturnEmpty
    \/ SplitDateTime
    \/ SplitAmountAmount
    \/ SplitAmountAmountAgain
    \/ SplitAmountSpaceAmount
    \/ SplitAmountSpaceAmountAgain
    \/ SplitUserAmount
    \/ SplitDescUser
    \/ SplitSpaceUser
    \/ SplitDescAmount
    \/ SplitDescSpaceAmount
    \/ SplitAccountUnit
    \/ SplitProductAddress
    \/ SplitValutaCurrency
    \/ ReturnAndCallAgain
    \/ ReturnAgain

-----------------------------------------------------------------------------
(* preprocess_text: the inputs                                             *)

\* bound: most fragments concatenated into one input text
MaxFrags == 3

A_0 == <<"0",".","0","0">>
A_26000 == <<"2","6",",","0","0","0",".","0","0">>
A_1000000 == <<"1","0","0","0","0","0","0",".","0","0">>
U_8888628 == <<"8","8","8","8","6","2","8">>
F_ATM == <<"A","T","M">>
F_Time == <<"1","2",":","0","0",":","0","0">>
F_AM == <<"A","M">>
F_NoRekening == <<"N","o","."," ","R","e","k","e","n","i","n","g">>
F_UnitKerja == <<"U","n","i","t"," ","K","e","r","j","a">>
F_NamaProduk == <<"N","a","m","a"," ","P","r","o","d","u","k">>
F_AlamatUnitKerja ==
    <<"A","l","a","m","a","t"," ","U","n","i","t"," ","K","e","r","j","a">>
F_Valuta == <<"V","a","l","u","t","a">>
F_IDR == <<"I","D","R">>
F_Currency == <<"C","u","r","r","e","n","c","y">>

\* the amounts, identifiers, words and labels the substitutions are about
Fragments ==
    {A_0, A_26000, A_1000000, U_8888628, F_ATM, F_Time, F_AM, <<" ">>, <<NL>>,
     <<":">>, F_NoRekening, F_UnitKerja, F_NamaProduk, F_AlamatUnitKerja,
     F_Valuta, F_IDR, F_Currency}

RECURSIVE Concat(_)
Concat(q) == IF q = <<>> THEN EmptyStr ELSE Head(q) \o Concat(Tail(q))

\* tests/test_pdfoxide_preprocessing.py 10-46
T_NoChange ==
    <<"H","e","l","l","o"," ","W","o","r","l","d",NL,"1","2","3",".","4","5",NL,
      "6","7","8",".","9","0">>
T_SmashedBasic == A_0 \o A_26000
T_Chained == <<"1","0",".","0","0","2","0",".","0","0","3","0",".","0","0">>
T_MixedSeparators ==
    <<"1",",","2","3","4",".","5","6","7",",","8","9","0",".","1","2">>
T_WithContext ==
    <<"B","a","l","a","n","c","e",":"," ","1",",","0","0","0",".","0","0",
      "2",",","5","0","0",".","0","0"," ","E","n","d">>
T_Standard == <<"1",",","0","0","0",".","0","0">>

\* three and four amounts on one line, separated by single spaces
T_SpacedThree == A_0 \o <<" ">> \o A_26000 \o <<" ">> \o A_0
T_SpacedFour == T_SpacedThree \o <<" ">> \o A_26000

TestTexts ==
    {T_NoChange, T_SmashedBasic, T_Chained, T_MixedSeparators, T_WithContext,
     T_Standard, T_SpacedThree, T_SpacedFour}

PreInputs ==
    {Concat(q) : q \in UNION {[1..n -> Fragments] : n \in 0..MaxFrags}}
        \cup TestTexts

InitPre ==
    /\ pp_in \in PreInputs
    /\ text = pp_in
    /\ pp_step = 0
    /\ pp_call = 1
    /\ pp_out = EmptyStr
    /\ IdleTxn
    /\ IdleNum
    /\ IdleMore

SpecPre == InitPre /\ [][NextPre]_vars

-----------------------------------------------------------------------------
(* preprocess_text: properties                                             *)

\* the first call has returned pp_out
Returned == pp_call >= 2

\* a whole text that is one well-formed amount: [\d,]+\.\d{2}
IsAmount(s) == AmountLen(s, 1) = Len(s) /\ Len(s) > 0

Amounts == {f \in Fragments : IsAmount(f)}

\* C5 (as claimed): preprocess_text is idempotent: applying it to its own
\* result returns that result.
C5_Idempotent == pp_call = 3 => text = pp_out

\* the metadata labels among the fragments
KnownLabels ==
    {F_NoRekening, F_UnitKerja, F_NamaProduk, F_AlamatUnitKerja, F_Valuta, F_Currency}

\* the label l stands in s at p
LabelAt(s, p, l) == p >= 1 /\ p + Len(l) - 1 <= Len(s) /\ SubSeq(s, p, p + Len(l) - 1) = l

\* the occurrence of l at p is part of an occurrence of a longer label
InsideLongerLabel(s, p, l) ==
    \E longer \in KnownLabels : \E q \in 1..p :
        /\ Len(longer) > Len(l)
        /\ LabelAt(s, q, longer)
        /\ q + Len(longer) >= p + Len(l)

\* C26 (as claimed): in the result for a one-line text, every known label
\* that does not open the text starts a line of its own, a label inside a
\* longer label counting as the longer one.
C26_LabelsStartOwnLine ==
    (Returned /\ \A k \in 1..Len(pp_in) : pp_in[k] # NL)
        => \A l \in KnownLabels : \A p \in 2..Len(pp_out) :
               (LabelAt(pp_out, p, l) /\ ~InsideLongerLabel(pp_out, p, l))
                   => pp_out[p - 1] = NL

\* C6 (as claimed): two amounts concatenated with no separator come back with
\* exactly one line break between them and nothing else changed, and a chain of
\* three merged amounts comes back with each amount on its own line.
C6_MergedAmountsSplit ==
    Returned =>
        /\ \A a, b \in Amounts :
               pp_in = a \o b => pp_out = a \o <<NL>> \o b
        /\ \A a, b, c \in Amounts :
               pp_in = a \o b \o c => pp_out = a \o <<NL>> \o b \o <<NL>> \o c

\* C7 (as claimed): a chain of three or more amounts separated by plain spaces
\* on one line comes back with every amount on its own line.
C7_SpacedAmountsSplit ==
    Returned =>
        /\ pp_in = T_SpacedThree
              => pp_out = A_0 \o <<NL>> \o A_26000 \o <<NL>> \o A_0
        /\ pp_in = T_SpacedFour
              => pp_out = A_0 \o <<NL>> \o A_26000 \o <<NL>> \o A_0
                              \o <<NL>> \o A_26000

\* C8 (as claimed): a text that is one standalone well-formed amount is
\* returned exactly as given.
C8_StandaloneAmountUnchanged ==
    (Returned /\ IsAmount(pp_in)) => pp_out = pp_in

-----------------------------------------------------------------------------
(* Number paths: parse_indonesian_number and _format_number_for_csv        *)

\* A Python float is held as the exact decimal it denotes: <<m, e>> stands for
\* m / 10^e, with no trailing zero among the e fraction digits.  The tokens
\* below have at most nine significant digits, which a double holds exactly
\* enough for float() and the .2f format to agree with decimal arithmetic.
RECURSIVE Pow10(_)
Pow10(n) == IF n = 0 THEN 1 ELSE 10 * Pow10(n - 1)

RECURSIVE Normalise(_, _)
Normalise(m, e) ==
    IF e > 0 /\ m % 10 = 0 THEN Normalise(m \div 10, e - 1) ELSE <<m, e>>

Zero == <<0, 0>>

\* the ValueError float() raises
ValueError == <<"ValueError">>

DigitChars == <<"0", "1", "2", "3", "4", "5", "6", "7", "8", "9">>

DigitVal(c) == (CHOOSE k \in 1..Len(DigitChars) : DigitChars[k] = c) - 1

RECURSIVE DigitsValue(_)
DigitsValue(q) ==
    IF q = EmptyStr THEN 0
    ELSE 10 * DigitsValue(SubSeq(q, 1, Len(q) - 1)) + DigitVal(q[Len(q)])

\* the characters number tokens are written with; "a" stands for any
\* character float() does not accept
NumChars == {"0", "1", ".", ",", " ", "a"}

\* float(s) for s over digits, '.', ',', whitespace and "a": surrounding
\* whitespace is dropped, then digits with at most one '.', at least one digit
float(s) ==
    LET t == Strip(s)
        n1 == Run(Digits, t, 1)
        hasDot == At(t, n1 + 1) = "."
        n2 == IF hasDot THEN Run(Digits, t, n1 + 2) ELSE 0
        used == n1 + (IF hasDot THEN 1 + n2 ELSE 0)
    IN  IF used = Len(t) /\ n1 + n2 >= 1
        THEN Normalise(DigitsValue(SubSeq(t, 1, n1) \o SubSeq(t, n1 + 2, n1 + 1 + n2)), n2)
        ELSE ValueError

\* c in s
Contains(s, c) == \E k \in 1..Len(s) : s[k] = c

\* s.rfind(c), 1-based; 0 when c is not in s
RFind(s, c) ==
    IF Contains(s, c) THEN CHOOSE k \in 1..Len(s) :
                               s[k] = c /\ \A j \in (k + 1)..Len(s) : s[j] # c
    ELSE 0

\* s.replace(c, '')
Remove(s, c) == SelectSeq(s, LAMBDA x : x # c)

\* s.replace(c, d)
Replace(s, c, d) == [k \in 1..Len(s) |-> IF s[k] = c THEN d ELSE s[k]]

\* parse_indonesian_number
parse_indonesian_number(v) ==
    IF v = EmptyStr \/ Strip(v) = EmptyStr THEN Zero
    ELSE LET cleaned == Replace(Remove(Strip(v), "."), ",", ".")
             parsed == float(cleaned)
         IN  IF parsed = ValueError THEN Zero ELSE parsed

RECURSIVE IntStr(_)
IntStr(n) ==
    IF n < 10 THEN <<DigitChars[n + 1]>>
    ELSE IntStr(n \div 10) \o <<DigitChars[(n % 10) + 1]>>

\* the float in hundredths, as '.2f' rounds it; a remainder of exactly one
\* half does not arise from the digits of the tokens below
Hundredths(f) ==
    LET m == f[1]
        e == f[2]
    IN  IF e <= 2 THEN m * Pow10(2 - e)
        ELSE (m \div Pow10(e - 2))
                 + (IF 2 * (m % Pow10(e - 2)) > Pow10(e - 2) THEN 1 ELSE 0)

\* f'{parsed:.2f}' with a trailing '.00' removed
FormatTwoDecimals(f) ==
    LET h == Hundredths(f)
        frac == <<DigitChars[((h % 100) \div 10) + 1], DigitChars[(h % 10) + 1]>>
    IN  IF h % 100 = 0 THEN IntStr(h \div 100)
        ELSE IntStr(h \div 100) \o <<".">> \o frac

\* the branch of _format_number_for_csv that parses v
FormatBranch(v) ==
    LET original == Strip(v)
    IN  IF v = EmptyStr \/ original = EmptyStr THEN "empty"
        ELSE IF \A k \in 1..Len(v) : ~IsDigit(v[k]) THEN "no_digit"
        ELSE IF Contains(original, ",") /\ Contains(original, ".")
             THEN IF RFind(original, ",") > RFind(original, ".")
                  THEN "indonesian" ELSE "us"
        ELSE IF Contains(original, ",") THEN "comma_only"
        ELSE "plain"

\* the float _format_number_for_csv formats, or ValueError
FormatParsed(v) ==
    LET original == Strip(v)
        branch == FormatBranch(v)
    IN  CASE branch = "indonesian" -> parse_indonesian_number(original)
          [] branch = "us"         -> float(Remove(original, ","))
          [] branch = "comma_only" -> float(Remove(original, ","))
          [] branch = "plain"      -> float(original)

\* _format_number_for_csv
format_number_for_csv(v) ==
    LET original == Strip(v)
        branch == FormatBranch(v)
    IN  IF branch = "empty" THEN EmptyStr
        ELSE IF branch = "no_digit" THEN v
        ELSE IF FormatParsed(v) = ValueError THEN original
        ELSE FormatTwoDecimals(FormatParsed(v))

\* total += parse_indonesian_number(debit)
ParseIndonesianNumber ==
    /\ num_pc = "ready"
    /\ sum_result' = parse_indonesian_number(value)
    /\ num_pc' = "summed"
    /\ UNCHANGED <<value, csv_result, txn_vars, pp_vars, more_vars>>

\* 'Debit': _format_number_for_csv(txn.get('debit', ''))
FormatNumberForCsv ==
    /\ num_pc = "summed"
    /\ csv_result' = format_number_for_csv(value)
    /\ num_pc' = "done"
    /\ UNCHANGED <<value, sum_result, txn_vars, pp_vars, more_vars>>

NextNum == ParseIndonesianNumber \/ FormatNumberForCsv

-----------------------------------------------------------------------------
(* Number paths: tokens                                                    *)

MaxTokLen == 4

RECURSIVE TokensUpTo(_)
TokensUpTo(n) ==
    IF n = 0 THEN {EmptyStr}
    ELSE LET shorter == TokensUpTo(n - 1)
         IN  shorter \cup {Append(t, c) : t \in shorter, c \in NumChars}

\* the tokens of the docstrings and tests of the source, and one token with a
\* letter between its separators
Tok_Indonesian == <<"1", ".", "2", "3", "4", ".", "5", "6", "7", ",", "8", "9">>
Tok_Western == <<"1", ",", "2", "3", "4", ",", "5", "6", "7", ".", "8", "9">>
Tok_IdMillion == <<"1", ".", "0", "0", "0", ".", "0", "0", "0", ",", "0", "0">>
Tok_UsMillion == <<"1", ",", "0", "0", "0", ",", "0", "0", "0", ".", "0", "0">>
Tok_IdDecimal == <<"1", "2", "3", ",", "4", "5">>
Tok_Us26000 == <<"2", "6", ",", "0", "0", "0", ".", "0", "0">>
Tok_Residue == <<"1", ".", "a", ",", "5">>

TestTokens == {Tok_Indonesian, Tok_Western, Tok_IdMillion, Tok_UsMillion,
               Tok_IdDecimal, Tok_Us26000, Tok_Residue}

NumInputs == TokensUpTo(MaxTokLen) \cup TestTokens

InitNum ==
    /\ value \in NumInputs
    /\ num_pc = "ready"
    /\ sum_result = Zero
    /\ csv_result = EmptyStr
    /\ IdleTxn
    /\ IdlePre
    /\ IdleMore

SpecNum == InitNum /\ [][NextNum]_vars

-----------------------------------------------------------------------------
(* Number paths: properties                                                *)

\* 1234567.89
F_1234567_89 == <<123456789, 2>>

\* the separator that appears last in a token holding both '.' and ','
LastSeparator(v) == IF RFind(v, ",") > RFind(v, ".") THEN "," ELSE "."

OtherSeparator(v) == IF LastSeparator(v) = "," THEN "." ELSE ","

\* the token read with its last separator as the decimal point and the other
\* separator stripped
ResolveByLastSeparator(v) ==
    float(Replace(Remove(Strip(v), OtherSeparator(v)), LastSeparator(v), "."))

\* C9 (as claimed): the sum path takes whichever of '.' and ',' appears last in
\* a token holding both as the decimal separator and strips the other, so
\* "1.234.567,89" and "1,234,567.89" both give 1234567.89, and "" gives 0.
C9_LastSeparatorIsDecimal ==
    num_pc \in {"summed", "done"} =>
        /\ value = Tok_Indonesian => sum_result = F_1234567_89
        /\ value = Tok_Western => sum_result = F_1234567_89
        /\ value = EmptyStr => sum_result = Zero
        /\ (/\ Contains(value, ",") /\ Contains(value, ".")
            /\ IsDigit(value[1]) /\ IsDigit(value[Len(value)])
            /\ ResolveByLastSeparator(value) # ValueError)
               => sum_result = ResolveByLastSeparator(value)

\* a token with non-numeric residue: some character of it is neither a digit,
\* a separator nor whitespace
HasResidue(v) ==
    \E k \in 1..Len(v) : v[k] \notin (DigitCommaDot \cup Whitespace)

\* C10 (as claimed): for a token with non-numeric residue the sum path gives 0
\* and the display path gives back the original string (as given, or with its
\* surrounding whitespace dropped), never a number.
C10_ResidueZeroAndPassThrough ==
    (num_pc = "done" /\ HasResidue(value)) =>
        /\ sum_result = Zero
        /\ csv_result \in {value, Strip(value)}

-----------------------------------------------------------------------------
(* verify_turnover                                                         *)

Max(a, b) == IF a >= b THEN a ELSE b

\* a + b on floats
Add(a, b) ==
    LET e == Max(a[2], b[2])
    IN  Normalise(a[1] * Pow10(e - a[2]) + b[1] * Pow10(e - b[2]), e)

\* abs(a - b) on floats
AbsDiff(a, b) ==
    LET e == Max(a[2], b[2])
        d == a[1] * Pow10(e - a[2]) - b[1] * Pow10(e - b[2])
    IN  Normalise(IF d < 0 THEN -d ELSE d, e)

\* a < b on floats
Less(a, b) ==
    LET e == Max(a[2], b[2])
    IN  a[1] * Pow10(e - a[2]) < b[1] * Pow10(e - b[2])

\* tolerance: float = 0.01
tolerance == <<1, 2>>

\* the outcomes of `discrepancy <= tolerance`: the decimal comparison, except
\* that a difference of exactly the tolerance is decided by the rounding of the
\* double subtraction (abs(0.01 - 0.0) <= 0.01 is True,
\* abs(300000.51 - 300000.50) <= 0.01 is False)
WithinTolerance(d) ==
    IF Less(d, tolerance) THEN {TRUE}
    ELSE IF Less(tolerance, d) THEN {FALSE}
    ELSE BOOLEAN

\* calculate_debit_sum / calculate_credit_sum: total += parse_indonesian_number(field)
RECURSIVE SumField(_, _)
SumField(txns, field) ==
    IF txns = <<>> THEN Zero
    ELSE Add(SumField(SubSeq(txns, 1, Len(txns) - 1), field),
             parse_indonesian_number(txns[Len(txns)][field]))

calculate_debit_sum(txns) == SumField(txns, "debit")

calculate_credit_sum(txns) == SumField(txns, "credit")

\* parse_indonesian_number(total) if total else None
Extracted(total) ==
    IF total = None \/ total = EmptyStr THEN None ELSE parse_indonesian_number(total)

\* utils.py 708-716
CalculateAndParse ==
    /\ ver_pc = "start"
    /\ ver' = [ver EXCEPT
                 !.calculated_debit = calculate_debit_sum(ver_txns),
                 !.calculated_credit = calculate_credit_sum(ver_txns),
                 !.extracted_debit = Extracted(summary_totals.total_debit),
                 !.extracted_credit = Extracted(summary_totals.total_credit)]
    /\ ver_pc' = "summed"
    /\ UNCHANGED <<ver_txns, summary_totals, txn_vars, pp_vars, num_vars, parse_vars,
                 late_vars>>

\* utils.py 718-723
CompareDebit ==
    /\ ver_pc = "summed"
    /\ IF ver.extracted_debit # None
       THEN LET d == AbsDiff(ver.extracted_debit, ver.calculated_debit)
            IN  \E match \in WithinTolerance(d) :
                    ver' = [ver EXCEPT !.debit_discrepancy = d, !.debit_match = match]
       ELSE ver' = ver
    /\ ver_pc' = "debit"
    /\ UNCHANGED <<ver_txns, summary_totals, txn_vars, pp_vars, num_vars, parse_vars,
                 late_vars>>

\* utils.py 725-730
CompareCredit ==
    /\ ver_pc = "debit"
    /\ IF ver.extracted_credit # None
       THEN LET d == AbsDiff(ver.extracted_credit, ver.calculated_credit)
            IN  \E match \in WithinTolerance(d) :
                    ver' = [ver EXCEPT !.credit_discrepancy = d, !.credit_match = match]
       ELSE ver' = ver
    /\ ver_pc' = "credit"
    /\ UNCHANGED <<ver_txns, summary_totals, txn_vars, pp_vars, num_vars, parse_vars,
                 late_vars>>

\* one entry of mismatch_parts: f'<side> discrepancy: {discrepancy:,.2f}', held
\* as the side and the hundredths the format prints
MismatchPart(side, discrepancy) ==
    [side |-> side, hundredths |-> Hundredths(discrepancy)]

\* utils.py 739-744
MismatchParts(v) ==
    (IF v.extracted_debit # None /\ ~v.debit_match
     THEN <<MismatchPart("debit", v.debit_discrepancy)>> ELSE <<>>)
    \o
    (IF v.extracted_credit # None /\ ~v.credit_match
     THEN <<MismatchPart("credit", v.credit_discrepancy)>> ELSE <<>>)

\* utils.py 732-734
StatusNotAvailable ==
    /\ ver_pc = "credit"
    /\ summary_totals.total_debit = None /\ summary_totals.total_credit = None
    /\ ver' = [ver EXCEPT !.status = "not_available"]
    /\ ver_pc' = "done"
    /\ UNCHANGED <<ver_txns, summary_totals, txn_vars, pp_vars, num_vars, parse_vars,
                 late_vars>>

\* utils.py 735-737
StatusPassed ==
    /\ ver_pc = "credit"
    /\ ~(summary_totals.total_debit = None /\ summary_totals.total_credit = None)
    /\ ver.debit_match /\ ver.credit_match
    /\ ver' = [ver EXCEPT !.status = "passed"]
    /\ ver_pc' = "done"
    /\ UNCHANGED <<ver_txns, summary_totals, txn_vars, pp_vars, num_vars, parse_vars,
                 late_vars>>

\* utils.py 738-745
StatusFailed ==
    /\ ver_pc = "credit"
    /\ ~(summary_totals.total_debit = None /\ summary_totals.total_credit = None)
    /\ ~(ver.debit_match /\ ver.credit_match)
    /\ ver' = [ver EXCEPT !.status = "failed", !.mismatch_parts = MismatchParts(ver)]
    /\ ver_pc' = "done"
    /\ UNCHANGED <<ver_txns, summary_totals, txn_vars, pp_vars, num_vars, parse_vars,
                 late_vars>>

NextVer ==
    \/ CalculateAndParse
    \/ CompareDebit
    \/ CompareCredit
    \/ StatusNotAvailable
    \/ StatusPassed
    \/ StatusFailed

-----------------------------------------------------------------------------
(* verify_turnover: inputs                                                 *)

MaxTxns == 2

V_0_01 == <<"0", ",", "0", "1">>
V_0_02 == <<"0", ",", "0", "2">>
V_1_00 == <<"1", ",", "0", "0">>
V_300000_50 == <<"3", "0", "0", ".", "0", "0", "0", ",", "5", "0">>
V_305000_00 == <<"3", "0", "5", ".", "0", "0", "0", ",", "0", "0">>
V_us_100_00 == <<"1", "0", "0", ".", "0", "0">>

\* the debit and credit fields of the records
FieldTokens == {EmptyStr, V_0_01, V_1_00, V_300000_50, V_us_100_00}

\* what extract_summary_totals returns for a total: None, or the numeric text
\* found after the label
TotalTokens == {None, V_0_01, V_0_02, V_1_00, V_300000_50, V_305000_00, V_us_100_00}

VerRecords == [debit : FieldTokens, credit : FieldTokens]

VerInputs == UNION {[1..n -> VerRecords] : n \in 0..MaxTxns}

InitVer ==
    /\ ver_txns \in VerInputs
    /\ summary_totals \in [total_debit : TotalTokens, total_credit : TotalTokens]
    /\ ver = VerLocals
    /\ ver_pc = "start"
    /\ IdleTxn
    /\ IdlePre
    /\ IdleNum
    /\ IdleParse
    /\ IdleLate

SpecVer == InitVer /\ [][NextVer]_vars

-----------------------------------------------------------------------------
(* verify_turnover: properties                                             *)

Declared(total) == total # None

\* the declared total differs from the recomputed sum by less than the
\* tolerance
SideWithin(total, calculated) ==
    Less(AbsDiff(parse_indonesian_number(total), calculated), tolerance)

\* the declared total differs from the recomputed sum by more than the
\* tolerance
SideOutside(total, calculated) ==
    Less(tolerance, AbsDiff(parse_indonesian_number(total), calculated))

\* every total the statement declares is within the tolerance of the sum
\* recomputed from the transactions
EveryDeclaredWithin ==
    /\ Declared(summary_totals.total_debit)
          => SideWithin(summary_totals.total_debit, ver.calculated_debit)
    /\ Declared(summary_totals.total_credit)
          => SideWithin(summary_totals.total_credit, ver.calculated_credit)

\* some total the statement declares is outside the tolerance
SomeDeclaredOutside ==
    \/ /\ Declared(summary_totals.total_debit)
       /\ SideOutside(summary_totals.total_debit, ver.calculated_debit)
    \/ /\ Declared(summary_totals.total_credit)
       /\ SideOutside(summary_totals.total_credit, ver.calculated_credit)

NoneDeclared ==
    ~Declared(summary_totals.total_debit) /\ ~Declared(summary_totals.total_credit)

\* C11 (as claimed): the status is not_available exactly when neither total is
\* declared; otherwise it is passed when every declared total is within the
\* tolerance of the recomputed sum, and failed otherwise.  A difference of
\* exactly the tolerance is left open, since the double subtraction decides it.
C11_StatusClassification ==
    ver_pc = "done" =>
        /\ (ver.status = "not_available") <=> NoneDeclared
        /\ (~NoneDeclared /\ EveryDeclaredWithin) => ver.status = "passed"
        /\ (~NoneDeclared /\ SomeDeclaredOutside) => ver.status = "failed"
        /\ ver.status \in {"not_available", "passed", "failed"}

Side(part) ==
    IF part.side = "debit"
    THEN [total |-> summary_totals.total_debit, calculated |-> ver.calculated_debit]
    ELSE [total |-> summary_totals.total_credit, calculated |-> ver.calculated_credit]

\* C12 (as claimed): when the status is failed the message names at least one
\* side, each named side is declared and differs from the recomputed sum by
\* more than the tolerance, and the discrepancy reported for it is the absolute
\* difference of the declared and the recomputed total.
C12_FailedNamesMismatch ==
    (ver_pc = "done" /\ ver.status = "failed") =>
        /\ ver.mismatch_parts # <<>>
        /\ \A k \in 1..Len(ver.mismatch_parts) :
              LET part == ver.mismatch_parts[k]
                  side == Side(part)
              IN  /\ Declared(side.total)
                  /\ ~Less(AbsDiff(parse_indonesian_number(side.total), side.calculated),
                           tolerance)
                  /\ part.hundredths
                        = Hundredths(AbsDiff(parse_indonesian_number(side.total),
                                             side.calculated))

-----------------------------------------------------------------------------
(* extract_metadata and the four backends                                  *)

\* The regular expressions of the header are not matched character by
\* character here: doc.captures[k] is group(1) of the search for field k in the
\* header text, or None when the search finds nothing; doc.id_captures are the
\* groups of the Indonesian patterns of pdfplumber_parser.py, doc.stem_account
\* the group of (\d{10,16}) in the file name, doc.summary the result of
\* extract_summary_totals and doc.scanned the records of extract_transactions.

\* utils.py 164-168
LABEL_INDICATORS ==
    {<<"u","n","i","t"," ","k","e","r","j","a">>,
     <<"n","a","m","a"," ","p","r","o","d","u","k">>,
     <<"a","l","a","m","a","t"," ","u","n","i","t">>,
     <<"v","a","l","u","t","a">>,
     <<"c","u","r","r","e","n","c","y">>,
     <<"t","a","n","g","g","a","l"," ","t","r","a","n","s","a","k","s","i">>,
     <<"u","r","a","i","a","n"," ","t","r","a","n","s","a","k","s","i">>,
     <<"t","e","l","l","e","r">>,
     <<"u","s","e","r"," ","i","d">>,
     <<"d","e","b","e","t">>,
     <<"k","r","e","d","i","t">>,
     <<"s","a","l","d","o">>,
     <<"t","r","a","n","s","a","c","t","i","o","n"," ","d","a","t","e">>,
     <<"t","r","a","n","s","a","c","t","i","o","n"," ","d","e","s","c","r","i","p","t","i","o","n">>}

\* str.lower()
LowerStr(s) == [k \in 1..Len(s) |-> Lower(s[k])]

\* is_likely_label
is_likely_label(v) == Strip(LowerStr(v)) \in LABEL_INDICATORS

\* match.group(1).strip() if match else ''
GroupOrEmpty(capture) == IF capture = None THEN EmptyStr ELSE Strip(capture)

\* s.endswith(suffix)
EndsWith(s, suffix) ==
    /\ Len(s) >= Len(suffix)
    /\ SubSeq(s, Len(s) - Len(suffix) + 1, Len(s)) = suffix

IdrSuffix == <<"-", "I", "D", "R">>

\* _WHITESPACE_PATTERN.sub(' ', s)
RECURSIVE CollapseWhitespace(_)
CollapseWhitespace(s) ==
    IF s = EmptyStr THEN EmptyStr
    ELSE IF IsSpace(s[1])
         THEN <<" ">> \o CollapseWhitespace(SubSeq(s, 1 + Run(Whitespace, s, 1), Len(s)))
         ELSE <<s[1]>> \o CollapseWhitespace(SubSeq(s, 2, Len(s)))

\* utils.py 179-227, field by field
MetadataField(k, capture) ==
    LET v == GroupOrEmpty(capture)
    IN  CASE k = "account_no" -> IF is_likely_label(v) THEN EmptyStr ELSE v
          [] k = "product_name" ->
                 LET name == IF is_likely_label(v) THEN EmptyStr ELSE v
                 IN  IF EndsWith(name, IdrSuffix)
                     THEN SubSeq(name, 1, Len(name) - 4) ELSE name
          [] k = "unit_address" ->
                 IF is_likely_label(CollapseWhitespace(v))
                 THEN EmptyStr ELSE CollapseWhitespace(v)
          [] OTHER -> v

\* extract_metadata
extract_metadata(captures) == [k \in HeaderKeys |-> MetadataField(k, captures[k])]

\* sum(1 for v in metadata.values() if v)
NonEmptyCount(metadata) == Cardinality({k \in DOMAIN metadata : metadata[k] # EmptyStr})

\* the merge without the test of non_empty_count
extract_metadata_pdfplumber_always_merge(id_captures, captures) ==
    LET metadata == [k \in PdfplumberKeys |-> GroupOrEmpty(id_captures[k])]
        english_metadata == extract_metadata(captures)
    IN  [k \in PdfplumberKeys |->
            IF metadata[k] = EmptyStr /\ english_metadata[k] # EmptyStr
            THEN english_metadata[k] ELSE metadata[k]]

\* extract_metadata_pdfplumber
extract_metadata_pdfplumber(id_captures, captures) ==
    LET metadata == [k \in PdfplumberKeys |-> GroupOrEmpty(id_captures[k])]
        english_metadata == extract_metadata(captures)
    IN  IF NonEmptyCount(metadata) < 2
        THEN [k \in PdfplumberKeys |->
                 IF metadata[k] = EmptyStr /\ english_metadata[k] # EmptyStr
                 THEN english_metadata[k] ELSE metadata[k]]
        ELSE metadata

\* metadata[key] = v
SetKey(metadata, key, v) ==
    [k \in (DOMAIN metadata) \cup {key} |-> IF k = key THEN v ELSE metadata[k]]

\* if summary.get(key): metadata[key] = summary[key], for the four keys in turn
RECURSIVE AddSummary(_, _, _)
AddSummary(metadata, summary, keys) ==
    IF keys = {} THEN metadata
    ELSE LET key == CHOOSE k \in keys : TRUE
             rest == AddSummary(metadata, summary, keys \ {key})
         IN  IF summary[key] # None /\ summary[key] # EmptyStr
             THEN SetKey(rest, key, summary[key]) ELSE rest

Backends == {"pymupdf", "pypdf", "pdfplumber", "pdfoxide"}

\* the exception the caller sees for an exception raised inside the try block:
\* the except clauses of each backend, in order
Surfaced(backend, exc) ==
    CASE exc = "FileNotFoundError" -> "FileNotFoundError"
      [] backend = "pymupdf" /\ exc = "FileDataError" -> "ValueError"
      [] backend = "pypdf" /\ exc = "PdfReadError" -> "ValueError"
      [] backend = "pdfoxide" /\ exc = "ValueError" -> "ValueError"
      [] OTHER -> "RuntimeError"

\* the exceptions the library of a backend raises on a file it cannot read
LibraryErrors(backend) ==
    CASE backend = "pymupdf" -> {"FileDataError", "OtherError"}
      [] backend = "pypdf" -> {"PdfReadError", "OtherError"}
      [] backend = "pdfplumber" -> {"PDFSyntaxError", "OtherError"}
      [] backend = "pdfoxide" -> {"ValueError", "OtherError"}

Raise(exc) ==
    /\ parse_out' = [parse_out EXCEPT !.raised = exc]
    /\ parse_pc' = "raised"

ParseFrame == UNCHANGED <<doc, txn_vars, pp_vars, num_vars, ver_vars, late_vars>>

\* if not path_obj.exists() / if not path_obj.is_file(): raise FileNotFoundError
PathNotAFile ==
    /\ parse_pc = "validate"
    /\ doc.path # "file"
    /\ Raise("FileNotFoundError")
    /\ ParseFrame

PathIsFile ==
    /\ parse_pc = "validate"
    /\ doc.path = "file"
    /\ parse_pc' = "open"
    /\ UNCHANGED parse_out
    /\ ParseFrame

\* fitz.open / PdfReader / pdfplumber.open / PdfDocument raises
OpenRaises ==
    /\ parse_pc = "open"
    /\ doc.open_raises # "none"
    /\ Raise(Surfaced(doc.backend, doc.open_raises))
    /\ ParseFrame

OpenDocument ==
    /\ parse_pc = "open"
    /\ doc.open_raises = "none"
    /\ parse_pc' = "pages"
    /\ UNCHANGED parse_out
    /\ ParseFrame

\* if len(doc) == 0: raise ValueError, inside the try block
NoPages ==
    /\ parse_pc = "pages"
    /\ doc.page_count = 0
    /\ Raise(Surfaced(doc.backend, "ValueError"))
    /\ ParseFrame

\* metadata = extract_metadata(first_page_text)
ExtractHeader ==
    /\ parse_pc = "pages"
    /\ doc.page_count # 0
    /\ parse_out' = [parse_out EXCEPT !.metadata =
                        IF doc.backend = "pdfplumber"
                        THEN extract_metadata_pdfplumber(doc.id_captures, doc.captures)
                        ELSE extract_metadata(doc.captures)]
    /\ parse_pc' = "filename"
    /\ ParseFrame

\* if not metadata.get('account_no'): the account number of the file name
FilenameFallback ==
    /\ parse_pc = "filename"
    /\ parse_out' = [parse_out EXCEPT !.metadata =
                        IF @["account_no"] = EmptyStr /\ doc.stem_account # None
                        THEN SetKey(@, "account_no", doc.stem_account) ELSE @]
    /\ parse_pc' = "summary"
    /\ ParseFrame

\* transactions, the summary totals added to metadata, return
AddSummaryAndReturn ==
    /\ parse_pc = "summary"
    /\ parse_out' = [parse_out EXCEPT
                        !.metadata = AddSummary(@, doc.summary, SummaryKeys),
                        !.transactions = doc.scanned]
    /\ parse_pc' = "returned"
    /\ ParseFrame

NextParse ==
    \/ PathNotAFile
    \/ PathIsFile
    \/ OpenRaises
    \/ OpenDocument
    \/ NoPages
    \/ ExtractHeader
    \/ FilenameFallback
    \/ AddSummaryAndReturn

-----------------------------------------------------------------------------
(* the four backends: documents                                            *)

G_account == <<"1", "0", "9", "7">>
G_stem == <<"0", "4", "1", "9", "0", "1", "0", "0", "1", "5">>
G_text == <<"K", "C", " ", "S">>
G_total == <<"1", ".", "0", "0", "0", ",", "0", "0">>

G_kantor == <<"K", "C", "P">>
G_label == <<"V", "a", "l", "u", "t", "a">>

\* the header fields whose pattern can capture a line that is itself a label:
\* ([^\n]+) or words of letters; account_no captures digits only and valuta
\* three letters
LabelCapturing ==
    {"business_unit", "product_name", "statement_date", "unit_address",
     "transaction_period"}

\* group(1) of an Indonesian pattern of pdfplumber_parser.py: nothing found, or a value
CapturedId(k) == {None, IF k = "account_no" THEN G_account ELSE G_kantor}

\* group(1) of a header pattern: nothing found, a value, or the label that
\* stands on the line where the value was expected
Captured(k) ==
    {None, IF k = "account_no" THEN G_account ELSE G_text}
        \cup (IF k \in LabelCapturing THEN {G_label} ELSE {})

\* a header with a label where a value was expected is tried in a file with no
\* account number in its name, no summary section and no records
LabelCase(d) ==
    d.stem_account = None /\ d.summary = NoDoc.summary /\ d.scanned = <<>>

\* what extract_summary_totals found: nothing, the debit total only, all four
SummaryCases ==
    {[k \in SummaryKeys |-> None],
     [k \in SummaryKeys |-> IF k = "total_debit" THEN G_total ELSE None],
     [k \in SummaryKeys |-> G_total]}

ScannedCases ==
    {<<>>, <<[date |-> L_date, description |-> L_Transfer, user |-> L_id8,
              debit |-> L_us_100000, credit |-> L_us_0, balance |-> L_us_500000]>>}

\* the groups of the seven header patterns on one first page
HeaderCaptures ==
    {c \in [HeaderKeys -> {None, G_account, G_text, G_label}] :
        /\ \A k \in HeaderKeys : c[k] \in Captured(k)
        /\ \A k, j \in HeaderKeys : c[k] = G_label /\ c[j] = G_label => k = j}

\* the groups of the Indonesian patterns on one first page
IdCaptures ==
    {c \in [PdfplumberKeys -> {None, G_account, G_kantor}] :
        \A k \in PdfplumberKeys : c[k] \in CapturedId(k)}

\* files that open and have a page
ReadableDocs ==
    {d \in [backend : Backends, path : {"file"}, open_raises : {"none"},
            page_count : {1},
            captures : HeaderCaptures,
            id_captures : IdCaptures,
            stem_account : {None, G_stem},
            summary : SummaryCases,
            scanned : ScannedCases] :
        /\ (\E k \in HeaderKeys : d.captures[k] = G_label) => LabelCase(d)
        /\ d.backend # "pdfplumber" => d.id_captures = NoDoc.id_captures}

\* paths that are no file, files the library cannot open, files with no page
UnreadableDocs ==
    {d \in [backend : Backends, path : {"missing", "directory", "file"},
            open_raises : {"none", "FileDataError", "PdfReadError", "PDFSyntaxError",
                           "ValueError", "OtherError"},
            page_count : {0},
            captures : {NoDoc.captures}, id_captures : {NoDoc.id_captures},
            stem_account : {None}, summary : {NoDoc.summary}, scanned : {<<>>}] :
        /\ d.open_raises \in {"none"} \cup LibraryErrors(d.backend)
        /\ d.path # "file" => d.open_raises = "none"}

Docs == ReadableDocs \cup UnreadableDocs

InitParse ==
    /\ doc \in Docs
    /\ parse_pc = "validate"
    /\ parse_out = NoOutcome
    /\ IdleTxn
    /\ IdlePre
    /\ IdleNum
    /\ IdleVer
    /\ IdleLate

SpecParse == InitParse /\ [][NextParse]_vars

-----------------------------------------------------------------------------
(* the four backends: properties                                           *)

MetadataKeys == HeaderKeys \cup SummaryKeys

\* a Python str
IsStr(v) == v # None /\ \A k \in 1..Len(v) : v[k] \in Char

\* C13 (as claimed): for every backend and every input the metadata of a parse
\* result has the same fixed key set, the seven header fields and the four
\* summary fields, every value is a string, and a field that was not found holds
\* the empty string.
C13_FixedMetadataKeys ==
    parse_pc = "returned" =>
        /\ DOMAIN parse_out.metadata = MetadataKeys
        /\ \A k \in DOMAIN parse_out.metadata : IsStr(parse_out.metadata[k])

\* C20 (as claimed): for every backend a document with zero pages surfaces
\* ValueError, distinct from RuntimeError and FileNotFoundError.
C20_ZeroPagesIsValueError ==
    (/\ parse_pc = "raised"
     /\ doc.path = "file" /\ doc.open_raises = "none" /\ doc.page_count = 0)
        => parse_out.raised = "ValueError"

\* C23 (as claimed): no metadata field of a parse result holds one of the
\* known field-label strings; a captured value that is a label is returned as
\* the empty string.
C23_NoFieldIsALabel ==
    parse_pc = "returned" =>
        \A k \in HeaderKeys \cap DOMAIN parse_out.metadata :
            ~is_likely_label(parse_out.metadata[k])

\* the values the Indonesian patterns found on the first page of doc
PrimaryPass == [k \in PdfplumberKeys |-> GroupOrEmpty(doc.id_captures[k])]

\* C24: when extract_metadata_pdfplumber returns, a field the Indonesian pass
\* found keeps that value; a field differs from the Indonesian pass only if
\* that pass found fewer than two fields and left this one empty, and then it
\* holds what extract_metadata found; with two or more fields found the result
\* is the Indonesian pass's output.
C24_AlternateFillsOnlyEmpty ==
    [][(parse_pc = "pages" /\ parse_pc' = "filename" /\ doc.backend = "pdfplumber")
         => LET found == {k \in PdfplumberKeys : PrimaryPass[k] # EmptyStr}
                merged == parse_out'.metadata
            IN  /\ DOMAIN merged = PdfplumberKeys
                /\ \A k \in found : merged[k] = PrimaryPass[k]
                /\ \A k \in PdfplumberKeys \ found :
                       merged[k] # EmptyStr
                          => /\ Cardinality(found) < 2
                             /\ merged[k] = extract_metadata(doc.captures)[k]
                /\ Cardinality(found) < 2
                      => \A k \in PdfplumberKeys \ found :
                             merged[k] = extract_metadata(doc.captures)[k]
                /\ Cardinality(found) >= 2 => merged = PrimaryPass]_vars

\* C24 witness: the Indonesian pass found the business unit only, the English
\* patterns found another business unit and a product name: the first is
\* kept, the product name is filled in
C24_Witness ==
    /\ parse_pc = "filename" /\ doc.backend = "pdfplumber"
    /\ PrimaryPass["business_unit"] = G_kantor
    /\ PrimaryPass["product_name"] = EmptyStr
    /\ doc.captures["business_unit"] = G_text
    /\ parse_out.metadata["business_unit"] = G_kantor
    /\ parse_out.metadata["product_name"] = G_text

-----------------------------------------------------------------------------
(* is_valid_parse (utils.py) and process_single_file (batch.py)            *)

\* the truth value of a str or None
Truthy(v) == v # None /\ v # EmptyStr

\* dict.get(key): None for a missing key
Get(d, key) == IF key \in DOMAIN d THEN d[key] ELSE None

\* sum(1 for v in metadata.values() if v and v.strip())
non_empty_fields(metadata) ==
    Cardinality({k \in DOMAIN metadata :
                    Truthy(metadata[k]) /\ Truthy(Strip(metadata[k]))})

\* the loop of is_valid_parse with "and" for "or"
is_valid_parse_and(metadata, txns) ==
    IF non_empty_fields(metadata) < 2 THEN FALSE
    ELSE IF txns = <<>> THEN FALSE
    ELSE ~ \E n \in 1..Len(txns) :
              /\ ~Truthy(Get(txns[n], "date"))
              /\ ~Truthy(Get(txns[n], "balance"))

is_valid_parse(metadata, txns) ==
    IF non_empty_fields(metadata) < 2 THEN FALSE
    ELSE IF txns = <<>> THEN FALSE
    ELSE ~ \E n \in 1..Len(txns) :
              \/ ~Truthy(Get(txns[n], "date"))
              \/ ~Truthy(Get(txns[n], "balance"))

\* str(e) of an exception, and the two fixed messages
ErrorMessage(raised) ==
    CASE raised = "FileNotFoundError" -> <<"File not found">>
      [] raised = "PermissionError" -> <<"Permission denied">>
      [] OTHER -> <<raised>>

\* the try block and its three except clauses; outcome is what
\* parser_func(file_path) returned or raised (a ValueError also stands for the
\* "Unknown parser" raised when PARSERS has no such name)
process_single_file(file_path, outcome) ==
    IF outcome.raised = "none"
    THEN [PendingResult(file_path) EXCEPT
             !.metadata = outcome.metadata,
             !.transactions = outcome.transactions,
             !.success = TRUE,
             !.is_valid = is_valid_parse(outcome.metadata, outcome.transactions)]
    ELSE [PendingResult(file_path) EXCEPT !.error = ErrorMessage(outcome.raised)]

ProcessSingleFile ==
    /\ file_pc = "call"
    /\ result' = process_single_file(1, parse_result)
    /\ file_pc' = "returned"
    /\ UNCHANGED <<parse_result, txn_vars, pp_vars, num_vars, ver_vars, parse_vars,
                   batch_vars, last_vars>>

NextFile == ProcessSingleFile

-----------------------------------------------------------------------------
(* process_single_file: what the parser hands over                         *)

MaxFields == 3
MaxRecords == 2

FieldNames == <<"account_no", "business_unit", "total_debit", "closing_balance">>

\* metadata dicts: the empty dict, and dicts of MaxFields keys
MetadataCases ==
    {<<>>} \cup [{FieldNames[n] : n \in 1..MaxFields} -> {EmptyStr, G_text}]

RecordCases ==
    [date : {EmptyStr, L_date}, description : {L_Transfer}, user : {L_id8},
     debit : {L_us_100000}, credit : {L_us_0}, balance : {EmptyStr, L_us_500000}]

TransactionCases ==
    UNION {[1..n -> RecordCases] : n \in 0..MaxRecords}

ParserExceptions ==
    {"FileNotFoundError", "PermissionError", "ValueError", "RuntimeError"}

ParserOutcomes ==
    [raised : {"none"}, metadata : MetadataCases, transactions : TransactionCases]
    \cup [raised : ParserExceptions, metadata : {<<>>}, transactions : {<<>>}]

InitFile ==
    /\ parse_result \in ParserOutcomes
    /\ result = PendingResult(0)
    /\ file_pc = "call"
    /\ IdleTxn
    /\ IdlePre
    /\ IdleNum
    /\ IdleVer
    /\ IdleParse
    /\ IdleBatch
    /\ IdleLast

SpecFile == InitFile /\ [][NextFile]_vars

-----------------------------------------------------------------------------
(* process_single_file: properties                                         *)

\* C14: for a parse that completed, is_valid is true exactly when the metadata
\* has at least two non-empty values, the transaction list is non-empty and
\* every record has a non-empty date and a non-empty balance; the result is
\* still a success, carries every record and the metadata unchanged, and has
\* no error.
C14_ValidityGateOnlyRecorded ==
    (file_pc = "returned" /\ parse_result.raised = "none") =>
        /\ result.is_valid =
              (/\ Cardinality({k \in DOMAIN parse_result.metadata :
                                  parse_result.metadata[k] # EmptyStr}) >= 2
               /\ Len(parse_result.transactions) > 0
               /\ \A n \in 1..Len(parse_result.transactions) :
                     /\ parse_result.transactions[n].date # EmptyStr
                     /\ parse_result.transactions[n].balance # EmptyStr)
        /\ result.success
        /\ result.transactions = parse_result.transactions
        /\ result.metadata = parse_result.metadata
        /\ result.error = None

\* C14 witness: a parse with enough metadata and two records, one of them
\* without a balance, came back as a success that is not valid
C14_Witness ==
    /\ file_pc = "returned"
    /\ result.success /\ ~result.is_valid
    /\ non_empty_fields(result.metadata) >= 2
    /\ Len(result.transactions) = 2
    /\ result.transactions[1].balance = EmptyStr
    /\ result.transactions[1].date # EmptyStr
    /\ result.transactions[2].balance # EmptyStr

-----------------------------------------------------------------------------
(* batch_parse (batch.py): parameters and pool size                        *)

MAX_WORKERS_CAP == 16
VALID_PARSERS == {"pymupdf", "pdfplumber", "pypdf", "pdfoxide"}
VALID_INIT_STRATEGIES == {"per-file", "per-worker"}

\* validate_batch_params without the check of chunk_size
validate_batch_params_no_chunk(parser_name, workers_arg, chunk_size, init_strategy) ==
    IF parser_name \notin VALID_PARSERS THEN ValueError
    ELSE IF /\ workers_arg.type # "NoneType"
            /\ (workers_arg.type # "int" \/ workers_arg.value < 1
                \/ workers_arg.value > 32)
         THEN ValueError
    ELSE IF init_strategy \notin VALID_INIT_STRATEGIES THEN ValueError
    ELSE None

\* the exception validate_batch_params raises, None when it returns
validate_batch_params(parser_name, workers_arg, chunk_size, init_strategy) ==
    IF parser_name \notin VALID_PARSERS THEN ValueError
    ELSE IF /\ workers_arg.type # "NoneType"
            /\ (workers_arg.type # "int" \/ workers_arg.value < 1
                \/ workers_arg.value > 32)
         THEN ValueError
    ELSE IF chunk_size < 1 \/ chunk_size > 500 THEN ValueError
    ELSE IF init_strategy \notin VALID_INIT_STRATEGIES THEN ValueError
    ELSE None

\* os.cpu_count() or 4, capped; cpu_count 0 stands for None
get_optimal_workers(cpu_count) ==
    Min(IF cpu_count = 0 THEN 4 ELSE cpu_count, MAX_WORKERS_CAP)

\* "Determine worker count" without the cap on an explicit max_workers
EffectiveWorkersUncapped(workers_arg, cpu_count) ==
    IF workers_arg.type = "NoneType" THEN get_optimal_workers(cpu_count)
    ELSE workers_arg.value

\* "Determine worker count"
EffectiveWorkers(workers_arg, cpu_count) ==
    IF workers_arg.type = "NoneType" THEN get_optimal_workers(cpu_count)
    ELSE Min(workers_arg.value, MAX_WORKERS_CAP)

RECURSIVE GCD(_, _)
GCD(a, b) == IF b = 0 THEN a ELSE GCD(b, a % b)

\* a quotient of two counters as a fraction in lowest terms
Fraction(n, d) == <<n \div GCD(n, d), d \div GCD(n, d)>>

BatchFrame == UNCHANGED <<args, txn_vars, pp_vars, num_vars, ver_vars, parse_vars,
                          file_vars, last_vars>>

\* return { ... } with 'duration', 'throughput', 'memory_peak_mb' and
\* 'worker_overhead_percent' left out
Return(total, n_successful, n_failed, the_results) ==
    /\ batch_out' = [raised |-> "none", total |-> total,
                     successful |-> n_successful, failed |-> n_failed,
                     results |-> the_results,
                     success_rate |-> IF total > 0
                                      THEN Fraction(n_successful * 100, total)
                                      ELSE <<0, 1>>]
    /\ batch_pc' = "returned"

-----------------------------------------------------------------------------
(* batch_parse: the main thread up to the pool                             *)

\* validate_batch_params raises
ValidateRaises ==
    /\ batch_pc = "validate"
    /\ validate_batch_params(args.parser_name, args.max_workers, args.chunk_size,
                             args.init_strategy) # None
    /\ batch_out' = [batch_out EXCEPT !.raised = "ValueError"]
    /\ batch_pc' = "raised"
    /\ UNCHANGED <<effects, valid_paths, max_workers, futures, results, successful,
                   failed>>
    /\ BatchFrame

ValidateReturns ==
    /\ batch_pc = "validate"
    /\ validate_batch_params(args.parser_name, args.max_workers, args.chunk_size,
                             args.init_strategy) = None
    /\ batch_pc' = "paths"
    /\ UNCHANGED <<effects, valid_paths, max_workers, futures, results, successful,
                   failed, batch_out>>
    /\ BatchFrame

\* if not paths: return
NoPaths ==
    /\ batch_pc = "paths"
    /\ args.paths = <<>>
    /\ Return(0, 0, 0, <<>>)
    /\ UNCHANGED <<effects, valid_paths, max_workers, futures, results, successful,
                   failed>>
    /\ BatchFrame

\* load_config and the two os.makedirs
MakeDirs ==
    /\ batch_pc = "paths"
    /\ args.paths # <<>>
    /\ effects' = [effects EXCEPT !.config_loaded = TRUE, !.makedirs = TRUE]
    /\ batch_pc' = "filter"
    /\ UNCHANGED <<valid_paths, max_workers, futures, results, successful, failed,
                   batch_out>>
    /\ BatchFrame

\* os.makedirs raises
MakeDirsRaises ==
    /\ batch_pc = "paths"
    /\ args.paths # <<>>
    /\ effects' = [effects EXCEPT !.config_loaded = TRUE]
    /\ batch_out' = [batch_out EXCEPT !.raised = "OSError"]
    /\ batch_pc' = "raised"
    /\ UNCHANGED <<valid_paths, max_workers, futures, results, successful, failed>>
    /\ BatchFrame

\* the loop "Validate file paths": the paths that exist and are files, in order
\* the kinds of path that os.path.isfile accepts
FileKinds == {"file", "namesake"}

ExistingFiles(paths) ==
    SelectSeq([n \in 1..Len(paths) |-> n], LAMBDA n : paths[n] \in FileKinds)

FilterPaths ==
    /\ batch_pc = "filter"
    /\ valid_paths' = ExistingFiles(args.paths)
    /\ effects' = [effects EXCEPT !.stat = 1..Len(args.paths)]
    /\ batch_pc' = "filtered"
    /\ UNCHANGED <<max_workers, futures, results, successful, failed, batch_out>>
    /\ BatchFrame

\* if not valid_paths: return
NoValidPaths ==
    /\ batch_pc = "filtered"
    /\ valid_paths = <<>>
    /\ Return(0, 0, Len(args.paths), <<>>)
    /\ UNCHANGED <<effects, valid_paths, max_workers, futures, results, successful,
                   failed>>
    /\ BatchFrame

CpuCounts == {0, 1, 2, 16, 64}

DetermineWorkers ==
    /\ batch_pc = "filtered"
    /\ valid_paths # <<>>
    /\ \E cpu_count \in CpuCounts :
          max_workers' = EffectiveWorkers(args.max_workers, cpu_count)
    /\ batch_pc' = "pool"
    /\ UNCHANGED <<effects, valid_paths, futures, results, successful, failed,
                   batch_out>>
    /\ BatchFrame

\* a future that has not run
PendingFuture ==
    [state |-> "PENDING", exception |-> "none", result |-> PendingResult(0),
     yielded |-> FALSE]

\* ProcessPoolExecutor(max_workers), one executor.submit per task
SubmitAll ==
    /\ batch_pc = "pool"
    /\ futures' = [t \in 1..Len(valid_paths) |-> PendingFuture]
    /\ effects' = [effects EXCEPT !.submitted = 1..Len(valid_paths)]
    /\ batch_pc' = "collect"
    /\ UNCHANGED <<valid_paths, max_workers, results, successful, failed, batch_out>>
    /\ BatchFrame

-----------------------------------------------------------------------------
(* batch_parse: the worker processes and the as_completed loop             *)

Running == {t \in DOMAIN futures : futures[t].state = "RUNNING"}

\* what parser_func does on an existing file: two parse results and the
\* exceptions process_single_file catches
B_metadata ==
    [k \in {"account_no", "business_unit"} |->
        IF k = "account_no" THEN G_account ELSE G_text]

TaskOutcomes ==
    {[raised |-> "none", metadata |-> B_metadata,
      transactions |-> <<[date |-> L_date, description |-> L_Transfer,
                          user |-> L_id8, debit |-> L_us_100000,
                          credit |-> L_us_0, balance |-> L_us_500000]>>],
     [raised |-> "none", metadata |-> <<>>, transactions |-> <<>>]}
    \cup [raised : {"FileNotFoundError", "PermissionError", "RuntimeError"},
          metadata : {<<>>}, transactions : {<<>>}]

\* a worker process takes a task: at most max_workers processes exist
StartTask(t) ==
    /\ batch_pc = "collect"
    /\ futures[t].state = "PENDING"
    /\ Cardinality(Running) < max_workers
    /\ futures' = [futures EXCEPT ![t].state = "RUNNING"]
    /\ effects' = [effects EXCEPT !.read = @ \cup {valid_paths[t]}]
    /\ UNCHANGED <<batch_pc, valid_paths, max_workers, results, successful, failed,
                   batch_out>>
    /\ BatchFrame

\* process_single_file returns in the worker and the result reaches the future
FinishTask(t) ==
    /\ batch_pc = "collect"
    /\ futures[t].state = "RUNNING"
    /\ \E outcome \in TaskOutcomes :
          futures' = [futures EXCEPT
                         ![t].state = "FINISHED",
                         ![t].result = process_single_file(valid_paths[t], outcome)]
    /\ UNCHANGED <<batch_pc, effects, valid_paths, max_workers, results, successful,
                   failed, batch_out>>
    /\ BatchFrame

\* a worker process dies: the executor sets BrokenProcessPool on every future
\* that has not finished
WorkerDies ==
    /\ batch_pc = "collect"
    /\ Running # {}
    /\ futures' = [t \in DOMAIN futures |->
                      IF futures[t].state = "FINISHED" THEN futures[t]
                      ELSE [futures[t] EXCEPT !.state = "FINISHED",
                                              !.exception = "BrokenProcessPool"]]
    /\ UNCHANGED <<batch_pc, effects, valid_paths, max_workers, results, successful,
                   failed, batch_out>>
    /\ BatchFrame

\* the dict built in the except clause of the loop
error_result(file_path, exc) ==
    [success |-> FALSE, file_path |-> file_path, error |-> <<exc>>]

\* save_result_files opens a file only for a non-empty metadata or transactions
Writes(r) == r.metadata # <<>> \/ r.transactions # <<>>

\* batch.py 206-207: os.path.splitext(result['file_name'])[0], the file name
\* without directory and extension; files are told apart by their place in
\* paths, and a namesake has the name of the first file of paths
base_name(file_path) ==
    IF args.paths[file_path] = "namesake"
    THEN CHOOSE n \in 1..Len(args.paths) :
             /\ args.paths[n] = "file"
             /\ \A o \in 1..Len(args.paths) : args.paths[o] = "file" => n <= o
    ELSE file_path

\* batch.py 210-217: the files save_result_files opens for writing
OutputFiles(r) ==
    {<<base_name(r.file_path), kind>> :
        kind \in {k \in {"metadata", "transactions"} : r[k] # <<>>}}

\* save_result_files: each output file now holds the rows of r
save_result_files(files, r) ==
    [f \in (DOMAIN files) \cup OutputFiles(r) |->
        IF f \in OutputFiles(r) THEN r.file_path ELSE files[f]]

\* one iteration of the loop: future.result() returns, the result is appended
\* and counted, save_result_files returns
CollectResult(t) ==
    /\ batch_pc = "collect"
    /\ futures[t].state = "FINISHED" /\ ~futures[t].yielded
    /\ futures[t].exception = "none"
    /\ futures' = [futures EXCEPT ![t].yielded = TRUE]
    /\ results' = Append(results, futures[t].result)
    /\ IF futures[t].result.success
       THEN /\ successful' = successful + 1
            /\ effects' = [effects EXCEPT
                              !.saved = IF Writes(futures[t].result)
                                        THEN @ \cup {valid_paths[t]} ELSE @,
                              !.files = save_result_files(@, futures[t].result)]
            /\ UNCHANGED failed
       ELSE /\ failed' = failed + 1
            /\ UNCHANGED <<successful, effects>>
    /\ UNCHANGED <<batch_pc, valid_paths, max_workers, batch_out>>
    /\ BatchFrame

\* one iteration of the loop: the result is appended and counted as successful,
\* then save_result_files raises and the except clause runs
CollectSaveRaises(t) ==
    /\ batch_pc = "collect"
    /\ futures[t].state = "FINISHED" /\ ~futures[t].yielded
    /\ futures[t].exception = "none"
    /\ futures[t].result.success /\ Writes(futures[t].result)
    /\ futures' = [futures EXCEPT ![t].yielded = TRUE]
    /\ results' = Append(Append(results, futures[t].result),
                         error_result(valid_paths[t], "OSError"))
    /\ successful' = successful + 1
    /\ failed' = failed + 1
    /\ UNCHANGED <<batch_pc, effects, valid_paths, max_workers, batch_out>>
    /\ BatchFrame

\* the loop without its try/except: the exception of the future leaves
\* batch_parse
CollectFutureRaisesUncaught(t) ==
    /\ batch_pc = "collect"
    /\ futures[t].state = "FINISHED" /\ ~futures[t].yielded
    /\ futures[t].exception # "none"
    /\ batch_out' = [batch_out EXCEPT !.raised = futures[t].exception]
    /\ batch_pc' = "raised"
    /\ UNCHANGED <<effects, valid_paths, max_workers, futures, results, successful,
                   failed>>
    /\ BatchFrame

\* one iteration of the loop: future.result() raises
CollectFutureRaises(t) ==
    /\ batch_pc = "collect"
    /\ futures[t].state = "FINISHED" /\ ~futures[t].yielded
    /\ futures[t].exception # "none"
    /\ futures' = [futures EXCEPT ![t].yielded = TRUE]
    /\ results' = Append(results, error_result(valid_paths[t], futures[t].exception))
    /\ failed' = failed + 1
    /\ UNCHANGED <<batch_pc, effects, valid_paths, max_workers, successful, batch_out>>
    /\ BatchFrame

\* as_completed is exhausted, the executor shuts down, the dict is returned
ReturnBatch ==
    /\ batch_pc = "collect"
    /\ \A t \in DOMAIN futures : futures[t].yielded
    /\ Return(Len(valid_paths), successful, failed, results)
    /\ UNCHANGED <<effects, valid_paths, max_workers, futures, results, successful,
                   failed>>
    /\ BatchFrame

MainThread ==
    \/ ValidateRaises
    \/ ValidateReturns
    \/ NoPaths
    \/ MakeDirs
    \/ MakeDirsRaises
    \/ FilterPaths
    \/ NoValidPaths
    \/ DetermineWorkers
    \/ SubmitAll
    \/ \E t \in DOMAIN futures : CollectResult(t)
    \/ \E t \in DOMAIN futures : CollectSaveRaises(t)
    \/ \E t \in DOMAIN futures : CollectFutureRaises(t)
    \/ ReturnBatch

Workers ==
    \/ \E t \in DOMAIN futures : StartTask(t)
    \/ \E t \in DOMAIN futures : FinishTask(t)
    \/ WorkerDies

NextBatch == MainThread \/ Workers

-----------------------------------------------------------------------------
(* batch_parse: calls                                                      *)

MaxPaths == 2

\* a path that does not exist, a directory, a PDF file, and a PDF file in
\* another directory that has the file name of an earlier file of the list
PathKinds == {"missing", "directory", "file", "namesake"}

\* the lists of paths: at most one namesake, after a file
PathLists ==
    {q \in UNION {[1..n -> PathKinds] : n \in 0..MaxPaths} :
        \A n \in 1..Len(q) :
            q[n] = "namesake"
                => /\ \E o \in 1..(n - 1) : q[o] = "file"
                   /\ \A o \in 1..Len(q) : q[o] = "namesake" => o = n}

\* None, ints around the accepted range 1..32 and the cap, and a float
WorkerArgs ==
    {NoneArg, [type |-> "float", value |-> 2]}
    \cup [type : {"int"}, value : {0, 1, 2, 16, 17, 32, 33}]

\* every combination of parameters on at most one path; every max_workers with
\* the other parameters at their defaults on up to MaxPaths paths
BatchCalls ==
    {a \in [paths : PathLists,
            parser_name : VALID_PARSERS \cup {"invalid"},
            max_workers : WorkerArgs,
            chunk_size : {0, 1, DEFAULT_CHUNK_SIZE, 500, 501},
            init_strategy : VALID_INIT_STRATEGIES \cup {"invalid"}] :
        Len(a.paths) > 1 =>
            /\ a.parser_name = DefaultArgs.parser_name
            /\ a.chunk_size = DefaultArgs.chunk_size
            /\ a.init_strategy = DefaultArgs.init_strategy}

InitBatch ==
    /\ args \in BatchCalls
    /\ batch_pc = "validate"
    /\ effects = NoEffects
    /\ valid_paths = <<>> /\ max_workers = 0 /\ futures = <<>>
    /\ results = <<>> /\ successful = 0 /\ failed = 0
    /\ batch_out = NoReturn
    /\ IdleTxn
    /\ IdlePre
    /\ IdleNum
    /\ IdleVer
    /\ IdleParse
    /\ IdleFile
    /\ IdleLast

SpecBatch == InitBatch /\ [][NextBatch]_vars

\* the main thread keeps running, and the executor runs every task it was given
FairSpecBatch ==
    /\ SpecBatch
    /\ WF_vars(MainThread)
    /\ WF_vars(\E t \in DOMAIN futures : StartTask(t))
    /\ WF_vars(\E t \in DOMAIN futures : FinishTask(t))

-----------------------------------------------------------------------------
(* batch_parse: properties                                                 *)

\* the records of results for the path with index n
RecordsOf(the_results, n) ==
    {k \in 1..Len(the_results) : the_results[k].file_path = n}

\* the task t failed: its future raised, or process_single_file caught an
\* exception of the parser
TaskFailed(t) ==
    futures[t].exception # "none" \/ ~futures[t].result.success

\* every submitted task was yielded by as_completed and has a record in the
\* returned results; a failed task has an error record
AllCollected ==
    \A t \in DOMAIN futures :
        /\ futures[t].yielded
        /\ RecordsOf(batch_out.results, valid_paths[t]) # {}
        /\ TaskFailed(t) =>
              \E k \in RecordsOf(batch_out.results, valid_paths[t]) :
                  /\ ~batch_out.results[k].success
                  /\ batch_out.results[k].error # None

FailingPaths ==
    {n \in 1..Len(args.paths) : args.paths[n] \notin FileKinds}
    \cup {valid_paths[t] : t \in {u \in DOMAIN futures : TaskFailed(u)}}
    \cup {batch_out.results[k].file_path :
            k \in {j \in 1..Len(batch_out.results) :
                      batch_out.results[j].error = <<"OSError">>}}

\* C16 (as claimed): when batch_parse returns, every path whose processing
\* failed, a missing path or a directory included, has an error record in
\* results and is counted in failed, whether or not other paths are valid.
C16_EveryFailureRecorded ==
    (batch_pc = "returned" /\ args.paths # <<>>) =>
        /\ \A n \in FailingPaths :
              \E k \in RecordsOf(batch_out.results, n) :
                  ~batch_out.results[k].success
        /\ batch_out.failed >= Cardinality(FailingPaths)

\* C17 (as claimed): when batch_parse returns after processing at least one
\* existing file, results holds exactly one record per processed file,
\* len(results) == total == successful + failed, and success_rate is
\* successful / total * 100.
C17_OneRecordPerFile ==
    (batch_pc = "returned" /\ valid_paths # <<>>) =>
        /\ \A t \in DOMAIN valid_paths :
              Cardinality(RecordsOf(batch_out.results, valid_paths[t])) = 1
        /\ Len(batch_out.results) = batch_out.total
        /\ batch_out.total = batch_out.successful + batch_out.failed
        /\ batch_out.success_rate[1] * batch_out.total
              = batch_out.successful * 100 * batch_out.success_rate[2]

\* C18: once the pool size is determined it is between 1 and 16, and at no
\* time do more tasks execute than the pool size.
C18_PoolBounded ==
    batch_pc \in {"pool", "collect"} =>
        /\ 1 <= max_workers /\ max_workers <= 16
        /\ Cardinality(Running) <= max_workers

\* C18 witness: max_workers=1 on two files: one task executes, the other waits
C18_Witness ==
    /\ batch_pc = "collect"
    /\ args.max_workers = [type |-> "int", value |-> 1]
    /\ Cardinality(Running) = max_workers
    /\ \E t \in DOMAIN futures : futures[t].state = "PENDING"

\* a call the claim says is rejected
RejectedCall ==
    \/ args.parser_name \notin {"pymupdf", "pdfplumber", "pypdf", "pdfoxide"}
    \/ args.max_workers.type = "int" /\ args.max_workers.value \notin 1..32
    \/ args.chunk_size \notin 1..500
    \/ args.init_strategy \notin {"per-file", "per-worker"}

\* C19: a call with an unknown parser name, a max_workers outside 1..32, a
\* chunk_size outside 1..500 or an unknown init_strategy never gets past the
\* validation: it ends in ValueError, with no directory made, no task
\* submitted and no file read, also for an empty path list.
C19_RejectedBeforeSideEffects ==
    RejectedCall =>
        /\ batch_pc \in {"validate", "raised"}
        /\ batch_pc = "raised" => batch_out.raised = "ValueError"
        /\ effects = NoEffects
        /\ futures = <<>>

\* C19 witness: chunk_size=501 with every other parameter valid and an empty
\* path list ended in ValueError
C19_Witness ==
    /\ batch_pc = "raised" /\ batch_out.raised = "ValueError"
    /\ args.paths = <<>>
    /\ args.chunk_size = 501
    /\ args.parser_name = "pymupdf" /\ args.max_workers = NoneArg
    /\ args.init_strategy = "per-worker"
    /\ effects = NoEffects

\* C30 (as claimed): when batch_parse has returned, every output file of every
\* input whose result was saved holds the rows of that input: no other input's
\* result was written over it, whatever the order in which the tasks completed.
C30_OutputsNeverOverwritten ==
    batch_pc = "returned" =>
        \A t \in DOMAIN futures :
            valid_paths[t] \in effects.saved
                => \A f \in OutputFiles(futures[t].result) :
                       /\ f \in DOMAIN effects.files
                       /\ effects.files[f] = valid_paths[t]

-----------------------------------------------------------------------------
(* parse_pdf (pdfparser/__init__.py)                                       *)

S_true == <<"t", "r", "u", "e">>
S_false == <<"f", "a", "l", "s", "e">>

\* load_config()['verify_turnover']: os.getenv('VERIFY_TURNOVER', 'false')
ConfigVerifyTurnover(env) == IF env = None THEN S_false ELSE env

\* "Determine if verification should be enabled" with the two branches merged
\* into an or: an explicit False no longer wins over the environment
ShouldVerifyOr(verify_turnover, env) ==
    \/ verify_turnover = "True"
    \/ LowerStr(ConfigVerifyTurnover(env)) = S_true

\* "Determine if verification should be enabled"
ShouldVerify(verify_turnover, env) ==
    IF verify_turnover = "None"
    THEN LowerStr(ConfigVerifyTurnover(env)) = S_true
    ELSE verify_turnover = "True"

\* dict.pop(key, None)
Pop(d, key) == [k \in (DOMAIN d) \ {key} |-> d[k]]

ApiFrame ==
    UNCHANGED <<call, txn_vars, pp_vars, num_vars, ver_vars, parse_vars, file_vars,
                batch_vars, tot_vars>>

DetermineVerification ==
    /\ api_pc = "start"
    /\ should_verify' = ShouldVerify(call.verify_turnover, call.env)
    /\ api_pc' = "dispatch"
    /\ UNCHANGED api_out
    /\ ApiFrame

\* what a backend returns: metadata, transactions and the text of all pages
BackendResults ==
    [metadata : {B_metadata}, transactions : ScannedCases, full_text : {EmptyStr, G_text}]

\* result = parse_pdf_<parser>(path) returns
BackendReturns ==
    /\ api_pc = "dispatch"
    /\ call.parser \in Backends
    /\ \E r \in BackendResults : api_out' = [api_out EXCEPT !.result = r]
    /\ api_pc' = "verify"
    /\ UNCHANGED should_verify
    /\ ApiFrame

\* parse_pdf_<parser>(path) raises, or the parser name is none of the four
BackendRaises ==
    /\ api_pc = "dispatch"
    /\ \E exc \in IF call.parser \in Backends
                  THEN {"FileNotFoundError", "ValueError", "RuntimeError"}
                  ELSE {"ValueError"} :
          api_out' = [api_out EXCEPT !.raised = exc]
    /\ api_pc' = "raised"
    /\ UNCHANGED should_verify
    /\ ApiFrame

\* the status of the dict verify_turnover returns
VerificationResults == [status : {"passed", "failed", "not_available"}]

\* if should_verify: result["verification"] = verify_turnover_func(...)
AddVerification ==
    /\ api_pc = "verify"
    /\ should_verify
    /\ \E v \in VerificationResults :
          api_out' = [api_out EXCEPT !.result = SetKey(@, "verification", v)]
    /\ api_pc' = "pop"
    /\ UNCHANGED should_verify
    /\ ApiFrame

NoVerification ==
    /\ api_pc = "verify"
    /\ ~should_verify
    /\ api_pc' = "pop"
    /\ UNCHANGED <<should_verify, api_out>>
    /\ ApiFrame

\* result.pop("full_text", None); return result
PopFullTextAndReturn ==
    /\ api_pc = "pop"
    /\ api_out' = [api_out EXCEPT !.result = Pop(@, "full_text")]
    /\ api_pc' = "returned"
    /\ UNCHANGED should_verify
    /\ ApiFrame

NextApi ==
    \/ DetermineVerification
    \/ BackendReturns
    \/ BackendRaises
    \/ AddVerification
    \/ NoVerification
    \/ PopFullTextAndReturn

\* values of VERIFY_TURNOVER: not set, and strings
EnvValues ==
    {None, S_true, S_false, EmptyStr, <<"T", "R", "U", "E">>, <<"T", "r", "u", "e">>,
     <<"1">>, <<"y", "e", "s">>}

Calls ==
    [parser : Backends \cup {"invalid"}, verify_turnover : {"None", "True", "False"},
     env : EnvValues]

InitApi ==
    /\ call \in Calls
    /\ should_verify = FALSE
    /\ api_pc = "start"
    /\ api_out = [raised |-> "none", result |-> <<>>]
    /\ IdleTxn
    /\ IdlePre
    /\ IdleNum
    /\ IdleVer
    /\ IdleParse
    /\ IdleFile
    /\ IdleBatch
    /\ IdleTotals

SpecApi == InitApi /\ [][NextApi]_vars

-----------------------------------------------------------------------------
(* parse_pdf: properties                                                   *)

\* C21 (as claimed): the returned result has the key 'verification' exactly
\* when verify_turnover is True, or is None with VERIFY_TURNOVER equal to
\* 'true'; the key 'full_text' is never in the returned result.
C21_VerificationExactlyWhenEnabled ==
    api_pc = "returned" =>
        /\ "verification" \in DOMAIN api_out.result
              <=> \/ call.verify_turnover = "True"
                  \/ call.verify_turnover = "None" /\ call.env = S_true
        /\ "full_text" \notin DOMAIN api_out.result

\* C21 (amended): the returned result has the key 'verification' exactly when
\* verify_turnover is True, or is None with VERIFY_TURNOVER equal to 'true'
\* in any letter case; the key 'full_text' is never in the returned result.
C21_VerificationExactlyWhenEnabledAnyCase ==
    api_pc = "returned" =>
        /\ "verification" \in DOMAIN api_out.result
              <=> \/ call.verify_turnover = "True"
                  \/ /\ call.verify_turnover = "None"
                     /\ call.env # None
                     /\ Len(call.env) = 4
                     /\ call.env[1] \in {"t", "T"} /\ call.env[2] \in {"r", "R"}
                     /\ call.env[3] \in {"u", "U"} /\ call.env[4] \in {"e", "E"}
        /\ "full_text" \notin DOMAIN api_out.result

\* C21 witness: verify_turnover=False with VERIFY_TURNOVER=true: the full text
\* was returned by the backend, no verification was added, full_text is gone
C21_Witness ==
    /\ api_pc = "returned"
    /\ call.verify_turnover = "False" /\ call.env = S_true
    /\ DOMAIN api_out.result = {"metadata", "transactions"}

-----------------------------------------------------------------------------
(* extract_summary_totals (utils.py)                                       *)

W_Saldo == <<"S","a","l","d","o">>
W_Awal == <<"A","w","a","l">>
W_Akhir == <<"A","k","h","i","r">>
W_Opening == <<"O","p","e","n","i","n","g">>
W_Closing == <<"C","l","o","s","i","n","g">>
W_Balance == <<"B","a","l","a","n","c","e">>
W_Total == <<"T","o","t","a","l">>
W_Transaksi == <<"T","r","a","n","s","a","k","s","i">>
W_Transaction == <<"T","r","a","n","s","a","c","t","i","o","n">>
W_Debet == <<"D","e","b","e","t">>
W_Debit == <<"D","e","b","i","t">>
W_Kredit == <<"K","r","e","d","i","t">>
W_Credit == <<"C","r","e","d","i","t">>

\* the words w1 \s+ w2 \s+ ... at p under re.IGNORECASE: the position after
\* the last word, 0 when they do not match
RECURSIVE WordsEnd(_, _, _)
WordsEnd(s, p, ws) ==
    IF ~WordAt(s, p, Head(ws)) THEN 0
    ELSE LET q == p + Len(Head(ws))
             w == Run(Whitespace, s, q)
         IN  IF Len(ws) = 1 THEN q
             ELSE IF w = 0 THEN 0 ELSE WordsEnd(s, q + w, Tail(ws))

\* ^w1\s+w2...$ on a stripped line
LineIs(s, ws) == WordsEnd(s, 1, ws) = Len(s) + 1

\* utils.py 87-98: the label type of the first pattern of
\* _SUMMARY_LABEL_PATTERNS that matches, "none" when none does
LabelType(s) ==
    CASE LineIs(s, <<W_Saldo, W_Awal>>) \/ LineIs(s, <<W_Opening, W_Balance>>)
             -> "opening_balance"
      [] LineIs(s, <<W_Total, W_Transaksi, W_Debet>>)
            \/ LineIs(s, <<W_Total, W_Debit, W_Transaction>>) -> "total_debit"
      [] LineIs(s, <<W_Total, W_Transaksi, W_Kredit>>)
            \/ LineIs(s, <<W_Total, W_Credit, W_Transaction>>) -> "total_credit"
      [] LineIs(s, <<W_Saldo, W_Akhir>>) \/ LineIs(s, <<W_Closing, W_Balance>>)
             -> "closing_balance"
      [] OTHER -> "none"

\* _NUMERIC_ONLY_PATTERN.match: ^[\d,.]*$
NUMERIC_ONLY_PATTERN(s) == Run(DigitCommaDot, s, 1) = Len(s)

\* utils.py 578-586: the first line of each label type, in line order
RECURSIVE LabelsFrom(_, _, _)
LabelsFrom(ls, j, found_types) ==
    IF j > Len(ls) THEN <<>>
    ELSE LET label_type == LabelType(Strip(ls[j]))
         IN  IF label_type # "none" /\ label_type \notin found_types
             THEN <<[label_type |-> label_type, pos |-> j]>>
                      \o LabelsFrom(ls, j + 1, found_types \cup {label_type})
             ELSE LabelsFrom(ls, j + 1, found_types)

\* utils.py 594-602: the numeric lines from line j on, up to the first line
\* that is neither numeric nor empty once two values are collected
RECURSIVE ValuesFrom(_, _, _)
ValuesFrom(ls, j, collected) ==
    IF j > Len(ls) THEN <<>>
    ELSE LET line == Strip(ls[j])
         IN  IF NUMERIC_LINE_PATTERN(line)
             THEN <<[pos |-> j, line |-> line]>> \o ValuesFrom(ls, j + 1, collected + 1)
             ELSE IF ~NUMERIC_ONLY_PATTERN(line) /\ collected >= 2
                  THEN <<>>
                  ELSE ValuesFrom(ls, j + 1, collected)

\* utils.py 606-609: zip(all_labels, values)
DirectMapping(labels, vals) ==
    [k \in SummaryKeys |->
        IF \E n \in 1..Len(labels) : labels[n].label_type = k
        THEN vals[CHOOSE n \in 1..Len(labels) : labels[n].label_type = k].line
        ELSE None]

\* utils.py 612-616: the first collected value after the label's line
FirstValueAfter(vals, label_idx) ==
    LET after == {n \in 1..Len(vals) : vals[n].pos > label_idx}
    IN  IF after = {} THEN None
        ELSE vals[CHOOSE n \in after : \A o \in after : n <= o].line

FallbackMapping(labels, vals) ==
    [k \in SummaryKeys |->
        IF \E n \in 1..Len(labels) : labels[n].label_type = k
        THEN FirstValueAfter(vals,
                 labels[CHOOSE n \in 1..Len(labels) : labels[n].label_type = k].pos)
        ELSE None]

\* '\n'.join(lines): the text the lines were split from
RECURSIVE JoinLines(_)
JoinLines(ls) ==
    IF ls = <<>> THEN EmptyStr
    ELSE IF Len(ls) = 1 THEN ls[1]
    ELSE ls[1] \o <<NL>> \o JoinLines(Tail(ls))

\* w1\s+w2\s+w3\s*[:\s]*([\d\.,]+) at p: group(1), None when it does not match
InlineAt(s, p, ws) ==
    LET q == WordsEnd(s, p, ws)
        g == q + Run(Whitespace \cup {":"}, s, q)
        n == Run(DigitCommaDot, s, g)
    IN  IF q = 0 \/ n = 0 THEN None ELSE SubSeq(s, g, g + n - 1)

\* pattern.search(text): the leftmost match
InlineSearch(s, ws) ==
    LET hits == {p \in 1..Len(s) : InlineAt(s, p, ws) # None}
    IN  IF hits = {} THEN None
        ELSE Strip(InlineAt(s, CHOOSE p \in hits : \A o \in hits : p <= o, ws))

\* utils.py 622-638: the Indonesian pattern, then the English one
InlineTotal(s, indonesian, english) ==
    IF InlineSearch(s, indonesian) # None THEN InlineSearch(s, indonesian)
    ELSE InlineSearch(s, english)

TotalsFrame ==
    UNCHANGED <<summary_lines, txn_vars, pp_vars, num_vars, ver_vars, parse_vars,
                file_vars, batch_vars, api_vars>>

\* utils.py 578-586
FindLabels ==
    /\ tot_pc = "labels"
    /\ all_labels' = LabelsFrom(summary_lines, 1, {})
    /\ tot_pc' = IF all_labels' # <<>> THEN "values" ELSE "inline"
    /\ UNCHANGED <<values, totals>>
    /\ TotalsFrame

\* utils.py 589-602
CollectValues ==
    /\ tot_pc = "values"
    /\ values' = ValuesFrom(summary_lines, all_labels[1].pos, 0)
    /\ tot_pc' = "map"
    /\ UNCHANGED <<all_labels, totals>>
    /\ TotalsFrame

\* utils.py 606-609
MapDirect ==
    /\ tot_pc = "map"
    /\ values # <<>> /\ Len(values) >= Len(all_labels)
    /\ totals' = DirectMapping(all_labels, values)
    /\ tot_pc' = "inline"
    /\ UNCHANGED <<all_labels, values>>
    /\ TotalsFrame

\* utils.py 610-616
MapFallback ==
    /\ tot_pc = "map"
    /\ values # <<>> /\ Len(values) < Len(all_labels)
    /\ totals' = FallbackMapping(all_labels, values)
    /\ tot_pc' = "inline"
    /\ UNCHANGED <<all_labels, values>>
    /\ TotalsFrame

\* utils.py 606, 610: no value collected
MapNothing ==
    /\ tot_pc = "map"
    /\ values = <<>>
    /\ tot_pc' = "inline"
    /\ UNCHANGED <<all_labels, values, totals>>
    /\ TotalsFrame

\* utils.py 619-640
InlineFallbackAndReturn ==
    /\ tot_pc = "inline"
    /\ LET joined == JoinLines(summary_lines)
       IN  totals' =
               [totals EXCEPT
                   !["total_debit"] =
                       IF @ = None
                       THEN InlineTotal(joined, <<W_Total, W_Transaksi, W_Debet>>,
                                        <<W_Total, W_Debit, W_Transaction>>)
                       ELSE @,
                   !["total_credit"] =
                       IF @ = None
                       THEN InlineTotal(joined, <<W_Total, W_Transaksi, W_Kredit>>,
                                        <<W_Total, W_Credit, W_Transaction>>)
                       ELSE @]
    /\ tot_pc' = "returned"
    /\ UNCHANGED <<all_labels, values>>
    /\ TotalsFrame

NextTotals ==
    \/ FindLabels
    \/ CollectValues
    \/ MapDirect
    \/ MapFallback
    \/ MapNothing
    \/ InlineFallbackAndReturn

-----------------------------------------------------------------------------
(* extract_summary_totals: texts                                           *)

L_SaldoAwal == W_Saldo \o <<" ">> \o W_Awal
L_TotalDebet == W_Total \o <<" ">> \o W_Transaksi \o <<" ">> \o W_Debet
L_InlineKredit ==
    W_Total \o <<" ">> \o W_Transaksi \o <<" ">> \o W_Kredit \o <<":", " ", "3", ",", "0", "0">>
L_value1 == <<"1", ",", "0", "0">>
L_value2 == <<"2", ",", "0", "0">>
L_Halaman == <<"H", "a", "l", "a", "m", "a", "n">>

\* number of lines of a text
MaxSummaryLines == 4

SummaryLineKinds ==
    {L_SaldoAwal, L_TotalDebet, L_InlineKredit, L_value1, L_value2, L_Halaman, EmptyStr}

SummaryTexts ==
    UNION {[1..n -> SummaryLineKinds] : n \in 1..MaxSummaryLines}

InitTotals ==
    /\ summary_lines \in SummaryTexts
    /\ all_labels = <<>>
    /\ values = <<>>
    /\ totals = NoTotals
    /\ tot_pc = "labels"
    /\ IdleTxn
    /\ IdlePre
    /\ IdleNum
    /\ IdleVer
    /\ IdleParse
    /\ IdleFile
    /\ IdleBatch
    /\ IdleApi

SpecTotals == InitTotals /\ [][NextTotals]_vars

-----------------------------------------------------------------------------
(* extract_summary_totals: properties                                      *)

\* the label of type k in all_labels
LabelOf(k) == CHOOSE n \in 1..Len(all_labels) : all_labels[n].label_type = k

\* C25 (as claimed): in the positional pass, the labels are paired with the
\* values by position only when there are as many values as labels; when the
\* counts differ every label gets the first collected value on a line after
\* its own; no label gets a value that stands only before the label.
C25_PositionalOnlyWhenCountsEqual ==
    [][(tot_pc = "map" /\ values # <<>>)
         => /\ Len(values) = Len(all_labels)
                  => totals' = DirectMapping(all_labels, values)
            /\ Len(values) # Len(all_labels)
                  => totals' = FallbackMapping(all_labels, values)
            /\ \A n \in 1..Len(all_labels) :
                   totals'[all_labels[n].label_type] # None
                      => \E v \in 1..Len(values) :
                             /\ values[v].line = totals'[all_labels[n].label_type]
                             /\ values[v].pos > all_labels[n].pos]_vars

-----------------------------------------------------------------------------
(* extract_transactions: classification, order and termination             *)

NonBlank(j) == Strip(lines[j]) # EmptyStr

\* a plain integer of 6 to 8 digits
PlainInteger6to8(s) ==
    Len(s) \in 6..8 /\ \A k \in 1..Len(s) : s[k] \in Digits

\* digits and commas, a dot, two digits
DecimalAmount(s) ==
    /\ Len(s) >= 4
    /\ s[Len(s) - 2] = "."
    /\ s[Len(s) - 1] \in Digits /\ s[Len(s)] \in Digits
    /\ \A k \in 1..(Len(s) - 3) : s[k] \in Digits \cup {","}

\* lines after the anchor a that end its description: a date line or a line of
\* digits, commas and dots
EndsDescription(a) ==
    {j \in (a + 1)..Len(lines) :
        \/ TRANSACTION_DATE_PATTERN(Strip(lines[j]))
        \/ /\ NonBlank(j)
           /\ \A k \in 1..Len(Strip(lines[j])) : Strip(lines[j])[k] \in Digits \cup {",", "."}}

\* the n-th non-empty line after line j (stripped); the empty string if the
\* text has no such line
NthNonEmptyAfter(j, n) ==
    LET S == {k \in (j + 1)..Len(lines) :
                /\ NonBlank(k)
                /\ Cardinality({m \in (j + 1)..(k - 1) : NonBlank(m)}) = n - 1}
    IN  IF S = {} THEN EmptyStr ELSE Strip(lines[CHOOSE k \in S : TRUE])

\* C22: at a date anchor whose description is followed by a field f: if f is a
\* plain 6-8 digit integer the record has user = f and the next three non-empty
\* lines as debit, credit, balance; if f is a decimal amount the record has an
\* empty user, debit = f and the next two non-empty lines as credit and
\* balance; blank lines in between are skipped.
C22_ClassifyNextField ==
    [][(/\ txn_pc = "scan" /\ InRange(i) /\ IsAnchor(Strip(lines[i]))
        /\ EndsDescription(i) # {})
         => LET f == CHOOSE j \in EndsDescription(i) :
                        \A k \in EndsDescription(i) : j <= k
                r == Last(transactions')
            IN  /\ Len(transactions') = Len(transactions) + 1
                /\ PlainInteger6to8(Strip(lines[f]))
                      => /\ r.user = Strip(lines[f])
                         /\ r.debit = NthNonEmptyAfter(f, 1)
                         /\ r.credit = NthNonEmptyAfter(f, 2)
                         /\ r.balance = NthNonEmptyAfter(f, 3)
                /\ DecimalAmount(Strip(lines[f]))
                      => /\ r.user = EmptyStr
                         /\ r.debit = Strip(lines[f])
                         /\ r.credit = NthNonEmptyAfter(f, 1)
                         /\ r.balance = NthNonEmptyAfter(f, 2)]_vars

\* C22 witness: date, debit, a blank line, credit, balance: one record without
\* user whose credit is the line after the blank one
C22_Witness ==
    /\ txn_pc = "done"
    /\ Len(lines) = 5 /\ lines[3] = L_blank
    /\ Len(transactions) = 1
    /\ transactions[1].user = EmptyStr
    /\ transactions[1].debit = lines[2]
    /\ transactions[1].credit = lines[4] /\ transactions[1].credit # EmptyStr
    /\ transactions[1].balance = lines[5] /\ transactions[1].balance # EmptyStr

\* the date anchor lines before line j
AnchorsBefore(j) ==
    {k \in 1..Len(lines) : k < j /\ TRANSACTION_DATE_PATTERN(Strip(lines[k]))}

\* C27: the scan never moves back; a record is only ever appended after the
\* earlier ones, at a date anchor line the scan stands on and has not used
\* before, with that line as its date; so the records are in the order of
\* their anchor lines and never more than the anchor lines passed.
C27_RecordsInScanOrder ==
    /\ [][/\ i' >= i
          /\ transactions' # transactions
                => /\ TRANSACTION_DATE_PATTERN(Strip(lines[i]))
                   /\ i' > i
                   /\ Len(transactions') = Len(transactions) + 1
                   /\ SubSeq(transactions', 1, Len(transactions)) = transactions
                   /\ Last(transactions').date = Strip(lines[i])]_vars
    /\ [](Len(transactions) <= Cardinality(AnchorsBefore(i)))

\* C27 witness: two records from a text with two anchors
C27_Witness ==
    /\ txn_pc = "done"
    /\ Len(transactions) = 2
    /\ Cardinality(AnchorsBefore(Len(lines) + 1)) = 2

\* C28: every step of the scan advances the line index or ends the loop, and
\* the index never passes the end of the text by more than the three fields a
\* record may lack, so the scan ends after at most that many steps; a step at
\* a line that is no date anchor adds no record, nothing is raised, and the
\* loop ends only with the index past the last line.
C28_ScanTerminates ==
    /\ [][/\ i' > i \/ (txn_pc' = "done" /\ i' >= i)
          /\ ~TRANSACTION_DATE_PATTERN(LineAt(i)) => transactions' = transactions]_vars
    /\ [](i <= Len(lines) + 3)
    /\ [](txn_pc # "raised")
    /\ [](txn_pc = "done" => ~InRange(i))

\* C28 witness: date, debit, credit, balance and a trailing description line:
\* the scan ended with the one record
C28_Witness ==
    /\ txn_pc = "done"
    /\ Len(lines) = 5 /\ lines[5] = L_Transfer
    /\ Len(transactions) = 1
    /\ transactions[1].balance = lines[4]
    /\ AMOUNT_PATTERN(lines[4])

\* C29 (as claimed): no record has a date anchor line as its user, debit,
\* credit or balance, and the line a record's last field came from is not the
\* anchor of the next record.
C29_AnchorOnlyEverDate ==
    /\ [](\A k \in 1..Len(transactions) :
             \A fld \in {"user", "debit", "credit", "balance"} :
                 ~TRANSACTION_DATE_PATTERN(transactions[k][fld]))
    /\ [][transactions' # transactions
             => ~(InRange(i') /\ TRANSACTION_DATE_PATTERN(Strip(lines[i'])))]_vars

=============================================================================
